---------------------------- MODULE Spec2Model ----------------------------
(***************************************************************************)
(* Generation orchestration pipeline of Tinkerly's backend:                *)
(*   MemoryCacheService  (TTL + LRU cache)                                 *)
(*   ServiceContainer    (dependency-injection registry)                   *)
(*   GeminiProvider      (retrying provider client)                        *)
(*   CodeGenerationService (cache -> prompt -> provider -> parse -> cache) *)
(* JavaScript strings are strings; an object value is held as its         *)
(* JSON.stringify text.  Time is Date.now() in milliseconds.               *)
(***************************************************************************)
EXTENDS Integers, Sequences, FiniteSets, TLC

VARIABLES
  cache,        \* MemoryCacheService.cache: entries in Map insertion order
  currentSize,  \* MemoryCacheService.currentSize
  clock,        \* Date.now()
  lastOp,       \* history: the cache operation that ran last, and its outcome
  script,       \* history: how far the run has followed LruScenario, -1 once off it
  containers,   \* the ServiceContainer objects that exist: "root", "child"
  services,     \* ServiceContainer.services, per container
  instances,    \* ServiceContainer.instances, per container (0: no instance)
  resolutionStack, \* ServiceContainer.resolutionStack, per container
  nextId,       \* the number of objects constructed or handed in so far
  built,        \* history: per token, how many times its implementation was constructed
  returned,     \* history: per token, the instances resolve has returned
  lastResolve,  \* history: the outcome of the resolve call that ran last
  retries,      \* GeminiProvider.config.retries
  providerPc,   \* where generateContent stands: idle, request, sleep, done
  attempt,      \* the loop variable of generateContent
  lastError,    \* lastError.message of generateContent, "" for null
  providerResult, \* what generateContent returned or threw
  attemptLog,   \* history: what the provider answered to each makeRequest
  delays,       \* history: the delays generateContent slept
  calls,        \* the generateCode and validateCode calls awaiting the provider
  written,      \* history: per cache key, the call that wrote the stored entry
  lastCall,     \* history: what the orchestrator step that ran last did
  streamPc,     \* where generateContentStream stands: idle, opening, receiving, fallback, done
  streamCall,   \* the arguments of the generateContentStream call
  fullContent,  \* fullContent of generateContentStream
  received,     \* history: the chunks the stream has yielded
  delivered,    \* history: the texts onChunk was called with
  warned,       \* history: the onChunk calls that threw
  failedAt,     \* history: where the try block threw: none, open, chunk, empty
  fallbackCall, \* history: the arguments generateContent was called with by the catch
  streamResult, \* what generateContentStream returned or threw
  repairLog,    \* history: what extractJsonFromContent did with the text parsed last
  pending,      \* the set calls that stand at an await, per caller
  disposal      \* the dispose call of the root container: where it stands, the
                \* hooks of the instances, the hooks invoked so far

cacheVars == <<cache, currentSize, clock, lastOp, script>>

containerVars == <<containers, services, instances, resolutionStack, nextId,
                   built, returned, lastResolve>>

providerVars == <<retries, providerPc, attempt, lastError, providerResult,
                  attemptLog, delays>>

orchVars == <<calls, written, lastCall>>

streamVars == <<streamPc, streamCall, fullContent, received, delivered, warned,
                failedAt, fallbackCall, streamResult>>

parseVars == <<repairLog>>

setVars == <<pending>>

disposeVars == <<disposal>>

vars == <<cacheVars, containerVars, providerVars, orchVars, streamVars, parseVars,
          setVars, disposeVars>>

-----------------------------------------------------------------------------
(* Bounds of the model *)

\* configured MemoryCacheConfig.maxEntries
maxEntries == 2

\* configured MemoryCacheConfig.maxSize, in bytes
maxSize == 300

\* the clock takes the first MaxTick + 1 of the values 1, 2, 1001, 1002, 2001, ...
MaxTick == 3

\* objects constructed or registered in one run
MaxInstances == 3

\* config.retries of a provider that reaches the cap of the back-off
ManyRetries == 6

\* the largest configured number of attempts
MaxRetries == 3

\* generateCode and validateCode calls that can be in flight together
MaxCalls == 2

\* the chunks one stream yields at most
MaxChunks == 2

(* Program constants *)

defaultTtl == 3600

MsPerSecond == 1000

MaxPromptLength == 100000

DefaultRetries == 3

GenerationTtl == 300

ValidationTtl == 600

BackoffBase == 1000

BackoffCap == 10000

-----------------------------------------------------------------------------
(* Inputs *)

ClockValues == {1 + (n \div 2) * MsPerSecond + (n % 2) : n \in 0..MaxTick}

CacheKeys == {"A", "B", "C"}

BoolTrue == [t |-> "boolean", s |-> "true"]

RECURSIVE Repeat(_, _)
Repeat(str, n) == IF n = 0 THEN "" ELSE str \o Repeat(str, n - 1)

\* a string whose approximate size alone is above maxSize
LongString == [t |-> "string", s |-> Repeat("a", maxSize \div 2)]

\* calculateSize gives 4 bytes for the one and more than maxSize for the other
CacheValues == {BoolTrue, LongString}

NoValue == [t |-> "null", s |-> ""]

\* the ttl argument of set: <<>> when omitted, <<seconds>> when given
TtlArgs == {<<0>>, <<1>>}

-----------------------------------------------------------------------------
(* MemoryCacheService *)

calculateSize(value) ==
  CASE value.t = "null"    -> 8
    [] value.t = "string"  -> Len(value.s) * 2 + 8
    [] value.t = "number"  -> 8
    [] value.t = "boolean" -> 4
    [] value.t = "object"  -> Len(value.s) * 2 + 16
    [] OTHER               -> 32

KeysOf(c) == {c[i].key : i \in DOMAIN c}

\* Map.get: the index of key's entry, 0 when absent
IndexOf(c, key) ==
  IF key \in KeysOf(c) THEN CHOOSE i \in DOMAIN c : c[i].key = key ELSE 0

\* Map.delete
RemoveAt(c, i) == SubSeq(c, 1, i - 1) \o SubSeq(c, i + 1, Len(c))

\* Map.set: an existing key keeps its place, a new key goes last
MapSet(c, entry) ==
  LET i == IndexOf(c, entry.key)
  IN  IF i = 0 THEN Append(c, entry) ELSE [c EXCEPT ![i] = entry]

RECURSIVE SumSizes(_)
SumSizes(c) == IF c = <<>> THEN 0 ELSE Head(c).size + SumSizes(Tail(c))

\* an expiry test that holds at the expiry time already
AtOrAfter(now, expiresAt) == now >= expiresAt

StrictlyAfter(now, expiresAt) == now > expiresAt

IsExpiredAtExpiry(entry, now) ==
  entry.expiresAt > 0 /\ AtOrAfter(now, entry.expiresAt)

\* the expiry test of get, has and cleanup
IsExpired(entry, now) == entry.expiresAt > 0 /\ StrictlyAfter(now, entry.expiresAt)

EffectiveTtl(ttl) == IF ttl = <<>> THEN defaultTtl ELSE ttl[1]

ExpiresAt(ttl, now) ==
  IF EffectiveTtl(ttl) > 0 THEN now + EffectiveTtl(ttl) * MsPerSecond ELSE 0

\* the scan of evictLRU: the first entry with the smallest lastAccessed below now
RECURSIVE ScanOldest(_, _, _, _)
ScanOldest(c, i, oldestIdx, oldestTime) ==
  IF i > Len(c) THEN oldestIdx
  ELSE IF c[i].lastAccessed < oldestTime
       THEN ScanOldest(c, i + 1, i, c[i].lastAccessed)
       ELSE ScanOldest(c, i + 1, oldestIdx, oldestTime)

\* st = [cache, currentSize, clock, evicted]
evictLRU(st) ==
  LET i == ScanOldest(st.cache, 1, 0, st.clock)
  IN  IF i = 0 \/ st.cache[i].key = "" THEN st
      ELSE [st EXCEPT !.cache = RemoveAt(st.cache, i),
                      !.currentSize = @ - st.cache[i].size,
                      !.evicted = Append(@, st.cache[i].key)]

\* one turn of a capacity loop: evictLRU, then the await; when nothing was
\* evicted the loop runs again and finds an older entry once Date.now() moved on
LoopTurn(st) ==
  LET after == evictLRU(st)
  IN  IF after.cache = st.cache THEN [st EXCEPT !.clock = @ + 1] ELSE after

RECURSIVE SizeLoop(_, _)
SizeLoop(st, requiredSize) ==
  IF st.currentSize + requiredSize > maxSize /\ Len(st.cache) > 0
  THEN SizeLoop(LoopTurn(st), requiredSize)
  ELSE st

RECURSIVE CountLoopOffByOne(_)
CountLoopOffByOne(st) ==
  IF Len(st.cache) > maxEntries /\ Len(st.cache) > 0
  THEN CountLoopOffByOne(LoopTurn(st))
  ELSE st

RECURSIVE CountLoop(_)
CountLoop(st) ==
  IF Len(st.cache) >= maxEntries /\ Len(st.cache) > 0
  THEN CountLoop(LoopTurn(st))
  ELSE st

ensureCapacity(st, requiredSize) == CountLoop(SizeLoop(st, requiredSize))

\* an overwrite that leaves the size of the entry it replaces in currentSize
FreedNothing(c, key) == 0

\* the size of the entry under key that set replaces, 0 when there is none
Freed(c, key) == IF IndexOf(c, key) = 0 THEN 0 ELSE c[IndexOf(c, key)].size

\* set(key, value, ttl) run to completion
SetResult(c, cs, now, key, value, ttl) ==
  LET size     == calculateSize(value)
      st       == ensureCapacity([cache |-> c, currentSize |-> cs,
                                  clock |-> now, evicted |-> <<>>], size)
      freed    == Freed(st.cache, key)
      entry    == [key |-> key, value |-> value,
                   expiresAt |-> ExpiresAt(ttl, now),
                   lastAccessed |-> now, size |-> size]
  IN  [cache |-> MapSet(st.cache, entry),
       currentSize |-> st.currentSize - freed + size,
       clock |-> st.clock,
       evicted |-> st.evicted]

\* get(key) run to completion
GetResult(c, cs, now, key) ==
  LET i == IndexOf(c, key)
  IN  IF i = 0
      THEN [cache |-> c, currentSize |-> cs, hit |-> FALSE, value |-> NoValue,
            expired |-> FALSE]
      ELSE IF IsExpired(c[i], now)
      THEN [cache |-> RemoveAt(c, i), currentSize |-> cs - c[i].size,
            hit |-> FALSE, value |-> NoValue, expired |-> TRUE]
      ELSE [cache |-> [c EXCEPT ![i].lastAccessed = now], currentSize |-> cs,
            hit |-> TRUE, value |-> c[i].value, expired |-> FALSE]

\* the record kept in lastOp: set keeps its arguments, get its outcome
Op(op, key, value, ttl, hit, expired) ==
  [op |-> op, key |-> key, value |-> value, ttl |-> ttl,
   hit |-> hit, expired |-> expired]

Other(op) == Op(op, "", NoValue, <<>>, FALSE, FALSE)

\* spec.md section 8, LRU: with room for two entries, insert A, insert B,
\* access A, insert C
LruScenario == <<"setA", "setB", "getA", "setC">>

Follow(step) ==
  IF script >= 0 /\ script < Len(LruScenario) /\ LruScenario[script + 1] = step
  THEN script + 1
  ELSE -1

Set(key, value, ttl) ==
  LET r == SetResult(cache, currentSize, clock, key, value, ttl)
  IN  /\ r.clock \in ClockValues
      /\ cache' = r.cache
      /\ currentSize' = r.currentSize
      /\ clock' = r.clock
      /\ lastOp' = Op("set", key, value, ttl, FALSE, FALSE)
      /\ script' = IF value = BoolTrue /\ ttl = <<0>> THEN Follow("set" \o key) ELSE -1
      /\ UNCHANGED <<containerVars, providerVars, orchVars, streamVars, parseVars, setVars, disposeVars>>

Get(key) ==
  LET r == GetResult(cache, currentSize, clock, key)
  IN  /\ cache' = r.cache
      /\ currentSize' = r.currentSize
      /\ lastOp' = Op("get", key, r.value, <<>>, r.hit, r.expired)
      /\ script' = Follow("get" \o key)
      /\ UNCHANGED <<clock, containerVars, providerVars, orchVars, streamVars, parseVars, setVars, disposeVars>>

\* a has that is the Map's has
HasResultOfMap(c, cs, now, key) ==
  [cache |-> c, currentSize |-> cs, found |-> IndexOf(c, key) # 0, expired |-> FALSE]

\* has(key) run to completion
HasResult(c, cs, now, key) ==
  LET i == IndexOf(c, key)
  IN  IF i = 0
      THEN [cache |-> c, currentSize |-> cs, found |-> FALSE, expired |-> FALSE]
      ELSE IF IsExpired(c[i], now)
      THEN [cache |-> RemoveAt(c, i), currentSize |-> cs - c[i].size,
            found |-> FALSE, expired |-> TRUE]
      ELSE [cache |-> c, currentSize |-> cs, found |-> TRUE, expired |-> FALSE]

Has(key) ==
  LET r == HasResult(cache, currentSize, clock, key)
  IN  /\ cache' = r.cache
      /\ currentSize' = r.currentSize
      /\ lastOp' = Op("has", key, NoValue, <<>>, r.found, r.expired)
      /\ script' = -1
      /\ UNCHANGED <<clock, containerVars, providerVars, orchVars, streamVars, parseVars, setVars, disposeVars>>

Delete(key) ==
  LET i == IndexOf(cache, key)
  IN  /\ cache' = IF i # 0 THEN RemoveAt(cache, i) ELSE cache
      /\ currentSize' = IF i # 0 THEN currentSize - cache[i].size ELSE currentSize
      /\ lastOp' = Op("delete", key, NoValue, <<>>, FALSE, FALSE)
      /\ script' = -1
      /\ UNCHANGED <<clock, containerVars, providerVars, orchVars, streamVars, parseVars, setVars, disposeVars>>

Clear ==
  /\ cache' = <<>>
  /\ currentSize' = 0
  /\ lastOp' = Other("clear")
  /\ script' = -1
  /\ UNCHANGED <<clock, containerVars, providerVars, orchVars, streamVars, parseVars, setVars, disposeVars>>

Cleanup ==
  LET kept  == SelectSeq(cache, LAMBDA e : ~IsExpired(e, clock))
      swept == SelectSeq(cache, LAMBDA e : IsExpired(e, clock))
  IN  /\ cache' = kept
      /\ currentSize' = currentSize - SumSizes(swept)
      /\ lastOp' = Other("cleanup")
      /\ script' = -1
      /\ UNCHANGED <<clock, containerVars, providerVars, orchVars, streamVars, parseVars, setVars, disposeVars>>

\* a string of which two fit into maxSize and three do not
MediumString == [t |-> "string", s |-> Repeat("a", maxSize \div 4 - 5)]

\* values that fit into maxSize one by one
FittingValues == {MediumString}

\* the ttl argument of the concurrent set calls: one second
ShortTtls == {<<1>>}

NotPending == [pc |-> "idle", key |-> "", value |-> NoValue, expiresAt |-> 0,
               now |-> 0, size |-> 0]

\* set from the point pc on, up to its next await: the size loop and the
\* count loop of ensureCapacity call evictLRU and await it, the return of
\* ensureCapacity is awaited by set, and the rest of set is the insert
RunToAwait(st, call) ==
  IF call.pc = "size" /\ st.currentSize + call.size > maxSize /\ Len(st.cache) > 0
  THEN [st |-> evictLRU(st), call |-> call]
  ELSE IF call.pc \in {"size", "count"} /\ Len(st.cache) >= maxEntries /\ Len(st.cache) > 0
  THEN [st |-> evictLRU(st), call |-> [call EXCEPT !.pc = "count"]]
  ELSE IF call.pc \in {"size", "count"}
  THEN [st |-> st, call |-> [call EXCEPT !.pc = "insert"]]
  ELSE LET freed == Freed(st.cache, call.key)
           entry == [key |-> call.key, value |-> call.value,
                     expiresAt |-> call.expiresAt,
                     lastAccessed |-> call.now, size |-> call.size]
       IN  [st |-> [st EXCEPT !.cache = MapSet(st.cache, entry),
                              !.currentSize = @ - freed + call.size],
            call |-> NotPending]

\* a step of a set call of caller id, from call on
SetStep(id, call) ==
  \E r \in {RunToAwait([cache |-> cache, currentSize |-> currentSize,
                         clock |-> clock, evicted |-> <<>>], call)} :
      /\ cache' = r.st.cache
      /\ currentSize' = r.st.currentSize
      /\ pending' = [pending EXCEPT ![id] = r.call]
      /\ lastOp' = Other("set")
      /\ script' = -1
      /\ UNCHANGED <<clock, containerVars, providerVars, orchVars, streamVars,
                     parseVars, disposeVars>>

\* set(key, value, ttl) is called: set up to its first await
SetCalled(id, key, value, ttl) ==
  /\ pending[id].pc = "idle"
  /\ SetStep(id, [pc |-> "size", key |-> key, value |-> value,
                  expiresAt |-> ExpiresAt(ttl, clock), now |-> clock,
                  size |-> calculateSize(value)])

\* the await of a pending set call is over: set up to its next await
SetResumes(id) ==
  /\ pending[id].pc # "idle"
  /\ SetStep(id, pending[id])

\* time passes between two operations
Tick ==
  /\ \E t \in ClockValues : t > clock /\ clock' = t
  /\ lastOp' = Other("tick")
  /\ UNCHANGED <<cache, currentSize, script, containerVars, providerVars, orchVars, streamVars, parseVars, setVars, disposeVars>>

-----------------------------------------------------------------------------
(* ServiceContainer *)

Tokens == {"A", "B"}

\* the class registered for each token: ImplA asks for B, ImplB asks for A
ClassOf(token) == IF token = "A" THEN "ImplA" ELSE "ImplB"

\* Injectable(tokens) stores the tokens a class asks for in
\* constructor.__dependencies
Injectable(class) ==
  CASE class = "ImplA" -> <<"B">>
    [] class = "ImplB" -> <<"A">>
    [] OTHER            -> <<>>

NoRegistration == [implementation |-> "", singleton |-> FALSE, dependencies |-> <<>>]

\* a map that holds every token
HasAlways(regs, token) == TRUE

Has_(regs, token) == regs[token].implementation # ""

DeclaredDependencies(implementation) == Injectable(implementation)

extractDependencies(implementation) == <<>>

SeqToSet(seq) == {seq[i] : i \in DOMAIN seq}

Thrown(st, error, chain) ==
  [st EXCEPT !.outcome = error, !.chain = chain, !.instance = 0]

\* classes whose constructor calls container.resolve for a token, and a class
\* whose constructor throws
Needs(implementation) ==
  CASE implementation = "NeedsA" -> "A"
    [] implementation = "NeedsB" -> "B"
    [] OTHER                     -> ""

ResolveClasses == {"ImplA", "Throws", "NeedsA", "NeedsB"}

\* a finally block that leaves the stack alone
PoppedNothing(s, token) == s

\* this.resolutionStack.delete(token) in the finally block
Popped(s, token) == [s EXCEPT !.stack = SelectSeq(@, LAMBDA t : t # token)]

\* a resolve call returns or throws: r is the container after it, st before
\* it, inside the resolutionStack while its constructor ran
Logged(r, st, token, inside) ==
  [r EXCEPT !.log = Append(@, [token |-> token, outcome |-> r.outcome,
                               before |-> st.stack, inside |-> inside,
                               after |-> r.stack,
                               had |-> st.instances[token],
                               has |-> r.instances[token]])]

\* resolve(token) on one container; st holds that container's instances and
\* resolutionStack, the construction counters and the call's result
RECURSIVE resolve(_, _, _)
RECURSIVE resolveDependencies(_, _, _, _)
RECURSIVE construct(_, _, _)

resolve(regs, st, token) ==
  IF token \in SeqToSet(st.stack)
  THEN Logged(Thrown(st, "CircularDependency", Append(st.stack, token)),
              st, token, st.stack)
  ELSE IF st.instances[token] # 0
  THEN Logged([st EXCEPT !.outcome = "ok", !.instance = st.instances[token]],
              st, token, st.stack)
  ELSE IF ~Has_(regs, token)
  THEN Logged(Thrown(st, "NotRegistered", <<token>>), st, token, st.stack)
  ELSE
    LET pushed == [st EXCEPT !.stack = Append(@, token)]
        deps   == resolveDependencies(regs, pushed, regs[token].dependencies, 1)
        made   == IF deps.outcome # "ok" THEN deps
                  ELSE construct(regs, deps, regs[token].implementation)
    IN  IF made.outcome # "ok"
        THEN Logged(Popped(made, token), st, token, pushed.stack)
        ELSE LET id == made.nextId + 1
             IN  Logged(Popped([made EXCEPT
                          !.nextId = id,
                          !.built[token] = @ + 1,
                          !.instances[token] = IF regs[token].singleton THEN id ELSE @,
                          !.outcome = "ok",
                          !.instance = id], token),
                        st, token, pushed.stack)

\* new registration.implementation(...dependencies): the constructor returns,
\* throws, or calls resolve on the container and throws what that call throws
construct(regs, st, implementation) ==
  IF implementation = "Throws"
  THEN Thrown(st, "ConstructorError", <<>>)
  ELSE IF Needs(implementation) # ""
  THEN resolve(regs, st, Needs(implementation))
  ELSE [st EXCEPT !.outcome = "ok"]

resolveDependencies(regs, st, dependencies, i) ==
  IF i > Len(dependencies) THEN [st EXCEPT !.outcome = "ok"]
  ELSE LET one == resolve(regs, st, dependencies[i])
       IN  IF one.outcome # "ok" THEN one
           ELSE resolveDependencies(regs, one, dependencies, i + 1)

\* register(token, implementation, singleton)
Register(c, token, implementation, singleton) ==
  /\ c \in containers
  /\ ~Has_(services[c], token)
  /\ services' = [services EXCEPT ![c][token] =
                    [implementation |-> implementation, singleton |-> singleton,
                     dependencies |-> extractDependencies(implementation)]]
  /\ lastResolve' = [lastResolve EXCEPT !.op = "register"]
  /\ UNCHANGED <<containers, instances, resolutionStack, nextId, built, returned>>
  /\ UNCHANGED <<cacheVars, providerVars, orchVars, streamVars, parseVars, setVars, disposeVars>>

\* registerInstance(token, instance) with a freshly made instance
RegisterInstance(c, token) ==
  /\ c \in containers
  /\ ~(Has_(services[c], token) \/ instances[c][token] # 0)
  /\ nextId < MaxInstances
  /\ nextId' = nextId + 1
  /\ instances' = [instances EXCEPT ![c][token] = nextId + 1]
  /\ lastResolve' = [lastResolve EXCEPT !.op = "registerInstance"]
  /\ UNCHANGED <<containers, services, resolutionStack, built, returned>>
  /\ UNCHANGED <<cacheVars, providerVars, orchVars, streamVars, parseVars, setVars, disposeVars>>

Resolve(c, token) ==
  LET st == resolve(services[c],
                    [instances |-> instances[c], stack |-> resolutionStack[c],
                     nextId |-> nextId, built |-> built,
                     outcome |-> "ok", instance |-> 0, chain |-> <<>>,
                     log |-> <<>>],
                    token)
  IN  /\ c \in containers
      /\ st.nextId <= MaxInstances
      /\ instances' = [instances EXCEPT ![c] = st.instances]
      /\ resolutionStack' = [resolutionStack EXCEPT ![c] = st.stack]
      /\ nextId' = st.nextId
      /\ built' = st.built
      /\ returned' = IF st.outcome = "ok"
                      THEN [returned EXCEPT ![token] = @ \cup {st.instance}]
                      ELSE returned
      /\ lastResolve' = [op |-> "resolve", container |-> c, token |-> token,
                         outcome |-> st.outcome, instance |-> st.instance,
                         chain |-> st.chain,
                         fresh |-> st.outcome = "ok" /\ st.instance \notin returned[token],
                         log |-> st.log]
      /\ UNCHANGED <<containers, services>>
      /\ UNCHANGED <<cacheVars, providerVars, orchVars, streamVars, parseVars, setVars, disposeVars>>

\* createChildContainer(): the registrations are copied, the instances are not
CreateChildContainer ==
  /\ "child" \notin containers
  /\ containers' = containers \cup {"child"}
  /\ services' = [services EXCEPT !["child"] = services["root"]]
  /\ lastResolve' = [lastResolve EXCEPT !.op = "createChildContainer"]
  /\ UNCHANGED <<instances, resolutionStack, nextId, built, returned>>
  /\ UNCHANGED <<cacheVars, providerVars, orchVars, streamVars, parseVars, setVars, disposeVars>>

\* isRegistered(token)
isRegistered(c, token) == Has_(services[c], token) \/ instances[c][token] # 0

\* what instance.dispose is: no function, an async function that resolves,
\* one whose promise rejects, or a function that throws when it is called
Hooks == {"none", "resolves", "rejects", "throws"}

\* the hooks of the instances under A and B that dispose is run against
HookChoices ==
  {[t \in Tokens |-> "resolves"],
   [t \in Tokens |-> IF t = "A" THEN "rejects" ELSE "resolves"],
   [t \in Tokens |-> IF t = "A" THEN "throws" ELSE "resolves"],
   [t \in Tokens |-> IF t = "A" THEN "none" ELSE "throws"]}

NoDisposal == [pc |-> "idle", hooks |-> [t \in Tokens |-> "none"], invoked |-> <<>>]

\* the tokens of this.instances in the order of the Map: instances are
\* numbered as they are stored
RECURSIVE InstanceTokens(_, _)
InstanceTokens(insts, id) ==
  IF id > MaxInstances + 1 THEN <<>>
  ELSE SelectSeq(<<"A", "B">>, LAMBDA t : insts[t] = id) \o InstanceTokens(insts, id + 1)

\* the for loop of dispose from the i-th instance on: the hooks called, and
\* whether a call threw, which ends the loop and dispose
RECURSIVE DisposeLoop(_, _, _, _)
DisposeLoop(tokens, hooks, i, invoked) ==
  IF i > Len(tokens) THEN [invoked |-> invoked, threw |-> FALSE]
  ELSE IF hooks[tokens[i]] = "none" THEN DisposeLoop(tokens, hooks, i + 1, invoked)
  ELSE IF hooks[tokens[i]] = "throws"
  THEN [invoked |-> Append(invoked, tokens[i]), threw |-> TRUE]
  ELSE DisposeLoop(tokens, hooks, i + 1, Append(invoked, tokens[i]))

\* dispose() of the root container up to await Promise.all
Dispose(hooks) ==
  \E loop \in {DisposeLoop(InstanceTokens(instances["root"], 1), hooks, 1, <<>>)} :
      /\ disposal.pc # "awaiting"
      /\ disposal' = [pc |-> IF loop.threw THEN "failed" ELSE "awaiting",
                      hooks |-> hooks, invoked |-> loop.invoked]
      /\ lastResolve' = [lastResolve EXCEPT !.op = "dispose"]
      /\ UNCHANGED <<containers, services, instances, resolutionStack, nextId,
                     built, returned>>
      /\ UNCHANGED <<cacheVars, providerVars, orchVars, streamVars, parseVars, setVars>>

\* the hooks have settled: this.clear() and the return of dispose
DisposeSettles ==
  /\ disposal.pc = "awaiting"
  /\ disposal' = [disposal EXCEPT !.pc = "done"]
  /\ services' = [services EXCEPT !["root"] = [t \in Tokens |-> NoRegistration]]
  /\ instances' = [instances EXCEPT !["root"] = [t \in Tokens |-> 0]]
  /\ resolutionStack' = [resolutionStack EXCEPT !["root"] = <<>>]
  /\ lastResolve' = [lastResolve EXCEPT !.op = "clear"]
  /\ UNCHANGED <<containers, nextId, built, returned>>
  /\ UNCHANGED <<cacheVars, providerVars, orchVars, streamVars, parseVars, setVars>>

-----------------------------------------------------------------------------
(* GeminiProvider *)

UpperCase == <<"A", "B", "C", "D", "E", "F", "G", "H", "I", "J", "K", "L", "M", "N", "O", "P", "Q", "R", "S", "T", "U", "V", "W", "X", "Y", "Z">>

LowerCase == <<"a", "b", "c", "d", "e", "f", "g", "h", "i", "j", "k", "l", "m", "n", "o", "p", "q", "r", "s", "t", "u", "v", "w", "x", "y", "z">>

CaseMap ==
  [c \in {UpperCase[j] : j \in DOMAIN UpperCase} |->
     LowerCase[CHOOSE j \in DOMAIN UpperCase : UpperCase[j] = c]]

RECURSIVE toLowerCase(_)
toLowerCase(str) ==
  IF str = "" THEN ""
  ELSE (IF Head(str) \in DOMAIN CaseMap THEN CaseMap[Head(str)] ELSE Head(str))
         \o toLowerCase(Tail(str))

includes(str, part) ==
  \E i \in 0..(Len(str) - Len(part)) : SubSeq(str, i + 1, i + Len(part)) = part

WhiteSpace == {" ", "\n", "\t", "\r"}

RECURSIVE trimStart(_)
trimStart(str) ==
  IF str # "" /\ Head(str) \in WhiteSpace THEN trimStart(Tail(str)) ELSE str

RECURSIVE trimEnd(_)
trimEnd(str) ==
  IF str # "" /\ SubSeq(str, Len(str), Len(str)) \in WhiteSpace
  THEN trimEnd(SubSeq(str, 1, Len(str) - 1))
  ELSE str

trim(str) == trimEnd(trimStart(str))

\* messages of the errors the Gemini client throws
KeyMessage       == "API key not valid"
AuthMessage      == "Authentication failed"
QuotaMessage     == "Quota exceeded"
BillingMessage   == "Billing disabled"
InvalidMessage   == "Invalid argument"
MalformedMessage == "Malformed request"
NetworkMessage   == "fetch failed"

\* messages of the errors GeminiProvider throws itself
TimeoutMessage   == "Request timeout"
EmptyMessage     == "Empty response received from Gemini"
FailedPrefix     == "Gemini generation failed: "
UnknownMessage   == "Unknown error"
NoStringMessage  == "Prompt must be a non-empty string"
BlankPromptMessage == "Prompt cannot be empty or whitespace only"
TooLongMessage   == "Prompt is too long (max 100,000 characters)"

\* errors that tell of authentication, quota or billing, or a malformed request
FatalMessages ==
  {KeyMessage, AuthMessage, QuotaMessage, BillingMessage, InvalidMessage,
   MalformedMessage}

ProviderMessages == FatalMessages \cup {NetworkMessage}

\* result.text of an answer: absent, blank, or text
NoText    == [present |-> FALSE, text |-> ""]
BlankText == [present |-> TRUE, text |-> " \n"]
SomeText  == [present |-> TRUE, text |-> "{}"]

Answers == {NoText, BlankText, SomeText}

\* what one makeRequest can end in
Answered(answer) == [kind |-> "answer", text |-> answer.text, present |-> answer.present]
Rejected(message) == [kind |-> "error", text |-> message, present |-> TRUE]
TimedOut == [kind |-> "timeout", text |-> "", present |-> FALSE]

Outcomes ==
  {Answered(a) : a \in Answers} \cup {Rejected(m) : m \in ProviderMessages}
    \cup {TimedOut}

Prompts == {"", " ", "hi"}

Returned(text) == [ok |-> TRUE, text |-> text]

Threw(message) == [ok |-> FALSE, text |-> message]

NoResult == [ok |-> FALSE, text |-> ""]

\* validatePrompt: the message it throws, "" when the prompt passes
validatePrompt(prompt) ==
  IF prompt = "" THEN NoStringMessage
  ELSE IF Len(trim(prompt)) = 0 THEN BlankPromptMessage
  ELSE IF Len(prompt) > MaxPromptLength THEN TooLongMessage
  ELSE ""

MatchesKeyword(message) ==
  \/ includes(message, "api key")
  \/ includes(message, "authentication")
  \/ includes(message, "quota")
  \/ includes(message, "billing")
  \/ includes(message, "invalid")
  \/ includes(message, "malformed")

isNonRetryableErrorCaseSensitive(message) == MatchesKeyword(message)

\* const message = error.message.toLowerCase()
isNonRetryableError(message) ==
  \E lowered \in {toLowerCase(message)} : MatchesKeyword(lowered)

Min(a, b) == IF a < b THEN a ELSE b

RECURSIVE Pow2(_)
Pow2(n) == IF n = 0 THEN 1 ELSE 2 * Pow2(n - 1)

\* a back-off without its cap
BackoffUncapped(n) == BackoffBase * Pow2(n - 1)

Backoff(n) == Min(BackoffBase * Pow2(n - 1), BackoffCap)

\* const content = result.text || ''
Content(outcome) == IF outcome.present THEN outcome.text ELSE ""

\* the error makeRequest or the blank check raises for an outcome, "" when
\* the attempt yields content
AttemptErrorNoTrim(outcome) ==
  CASE outcome.kind = "timeout" -> TimeoutMessage
    [] outcome.kind = "error"   -> outcome.text
    [] OTHER -> IF Content(outcome) = "" THEN EmptyMessage ELSE ""

AttemptError(outcome) ==
  CASE outcome.kind = "timeout" -> TimeoutMessage
    [] outcome.kind = "error"   -> outcome.text
    [] OTHER -> IF trim(Content(outcome)) = "" THEN EmptyMessage ELSE ""

FinalErrorUnwrapped(message) == Threw(FailedPrefix \o UnknownMessage)

\* the error thrown after the loop: it wraps lastError.message
FinalError(message) ==
  Threw(FailedPrefix \o (IF message = "" THEN UnknownMessage ELSE message))

LoopContinuesShort(n) == n < retries

\* the loop condition of generateContent
LoopContinues(n) == n <= retries

\* new GeminiProvider({retries: configured}); 0 stands for a configuration
\* that gives no retries, or gives 0
Construct(configured) ==
  /\ providerPc \in {"idle", "done"}
  /\ retries' = IF configured = 0 THEN DefaultRetries ELSE configured
  /\ providerPc' = "idle"
  /\ attempt' = 1
  /\ lastError' = ""
  /\ providerResult' = NoResult
  /\ attemptLog' = <<>>
  /\ delays' = <<>>
  /\ UNCHANGED <<cacheVars, containerVars, orchVars, streamVars, parseVars, setVars, disposeVars>>

\* the body of generateContent up to its first await
StartGenerate(prompt) ==
  /\ attemptLog' = <<>>
  /\ delays' = <<>>
  /\ lastError' = ""
  /\ attempt' = 1
  /\ IF validatePrompt(prompt) # ""
     THEN providerPc' = "done" /\ providerResult' = Threw(validatePrompt(prompt))
     ELSE IF LoopContinues(1)
     THEN providerPc' = "request" /\ providerResult' = NoResult
     ELSE providerPc' = "done" /\ providerResult' = FinalError("")
  /\ UNCHANGED retries

\* generateContent up to its first await
GenerateContent(prompt) ==
  /\ providerPc \in {"idle", "done"}
  /\ streamPc \in {"idle", "done"}
  /\ StartGenerate(prompt)
  /\ UNCHANGED <<cacheVars, containerVars, orchVars, streamVars, parseVars, setVars, disposeVars>>

\* makeRequest settles: the rest of the loop body, up to the next await
RequestSettles(outcome) ==
  \E error \in {AttemptError(outcome)} :
      /\ providerPc = "request"
      /\ attemptLog' = Append(attemptLog, outcome)
      /\ IF error = ""
         THEN /\ providerPc' = "done"
              /\ providerResult' = Returned(Content(outcome))
              /\ UNCHANGED <<lastError, attempt, delays>>
         ELSE /\ lastError' = error
              /\ IF isNonRetryableError(error)
                 THEN /\ providerPc' = "done"
                      /\ providerResult' = FinalError(error)
                      /\ UNCHANGED <<attempt, delays>>
                 ELSE IF attempt < retries
                 THEN /\ providerPc' = "sleep"
                      /\ delays' = Append(delays, Backoff(attempt))
                      /\ UNCHANGED <<attempt, providerResult>>
                 ELSE /\ attempt' = attempt + 1
                      /\ IF LoopContinues(attempt + 1)
                         THEN providerPc' = "request" /\ UNCHANGED providerResult
                         ELSE providerPc' = "done" /\ providerResult' = FinalError(error)
                      /\ UNCHANGED delays
      /\ UNCHANGED <<retries, cacheVars, containerVars, orchVars, streamVars, parseVars, setVars, disposeVars>>

\* sleep(delay) is over: the next turn of the loop
SleepEnds ==
  /\ providerPc = "sleep"
  /\ attempt' = attempt + 1
  /\ IF LoopContinues(attempt + 1)
     THEN providerPc' = "request" /\ UNCHANGED providerResult
     ELSE providerPc' = "done" /\ providerResult' = FinalError(lastError)
  /\ UNCHANGED <<retries, lastError, attemptLog, delays, cacheVars, containerVars, orchVars, streamVars, parseVars, setVars, disposeVars>>

-----------------------------------------------------------------------------
(* GeminiProvider.generateContentStream *)

\* requestConfig: left out, or given
RequestConfigs == {"undefined", "given"}

StreamCall(prompt, config, onChunk) ==
  [prompt |-> prompt, config |-> config, onChunk |-> onChunk]

NoStreamCall == StreamCall("", "undefined", FALSE)

GenerateCall(prompt, config) == [called |-> TRUE, prompt |-> prompt, config |-> config]

NoGenerateCall == [called |-> FALSE, prompt |-> "", config |-> "undefined"]

\* a chunk of the stream: its text property
ChunkOf(text) == [present |-> TRUE, text |-> text]

Chunks == {NoText, ChunkOf(" "), ChunkOf("a"), ChunkOf("b")}

\* chunk.text || ''
ChunkText(chunk) == IF chunk.present THEN chunk.text ELSE ""

\* a later chunk put in front of the text so far
AccumulateInFront(content, chunkText) == chunkText \o content

\* fullContent += chunkText
Accumulate(content, chunkText) == content \o chunkText

\* the outcomes of makeRequest the fallback is run against
FallbackOutcomes == {Answered(SomeText), Rejected(KeyMessage), TimedOut}

\* the fallback with the provider's default configuration
FallbackDefaultConfig(call) == GenerateCall(call.prompt, "undefined")

\* the catch block: return this.generateContent(prompt, requestConfig)
FallbackSameCall(call) == GenerateCall(call.prompt, call.config)

Fallback(thrownAt) ==
  /\ streamPc' = "fallback"
  /\ failedAt' = thrownAt
  /\ fallbackCall' = FallbackSameCall(streamCall)
  /\ StartGenerate(FallbackSameCall(streamCall).prompt)
  /\ UNCHANGED streamResult

\* generateContentStream up to its first await
GenerateContentStream(prompt, config, onChunk) ==
  /\ streamPc \in {"idle", "done"}
  /\ providerPc \in {"idle", "done"}
  /\ streamCall' = StreamCall(prompt, config, onChunk)
  /\ fullContent' = ""
  /\ received' = <<>>
  /\ delivered' = <<>>
  /\ warned' = <<>>
  /\ failedAt' = "none"
  /\ fallbackCall' = NoGenerateCall
  /\ IF validatePrompt(prompt) # ""
     THEN streamPc' = "done" /\ streamResult' = Threw(validatePrompt(prompt))
     ELSE streamPc' = "opening" /\ streamResult' = NoResult
  /\ UNCHANGED <<cacheVars, containerVars, providerVars, orchVars, parseVars, setVars, disposeVars>>

\* models.generateContentStream resolves with the stream
StreamOpens ==
  /\ streamPc = "opening"
  /\ streamPc' = "receiving"
  /\ UNCHANGED <<streamCall, fullContent, received, delivered, warned, failedAt,
                 fallbackCall, streamResult, cacheVars, containerVars, providerVars, orchVars, parseVars, setVars, disposeVars>>

\* models.generateContentStream rejects
StreamOpenFails ==
  /\ streamPc = "opening"
  /\ Fallback("open")
  /\ UNCHANGED <<streamCall, fullContent, received, delivered, warned,
                 cacheVars, containerVars, orchVars, parseVars, setVars, disposeVars>>

\* one turn of the for await loop; throws: whether onChunk throws
ChunkArrives(chunk, throws) ==
  \E chunkText \in {ChunkText(chunk)} :
      /\ streamPc = "receiving"
      /\ Len(received) < MaxChunks
      /\ throws => (chunkText # "" /\ streamCall.onChunk)
      /\ received' = Append(received, chunk)
      /\ IF chunkText # ""
         THEN /\ fullContent' = Accumulate(fullContent, chunkText)
              /\ IF streamCall.onChunk
                 THEN /\ delivered' = Append(delivered, chunkText)
                      /\ warned' = Append(warned, throws)
                 ELSE UNCHANGED <<delivered, warned>>
         ELSE UNCHANGED <<fullContent, delivered, warned>>
      /\ UNCHANGED <<streamPc, streamCall, failedAt, fallbackCall, streamResult,
                     cacheVars, containerVars, providerVars, orchVars, parseVars, setVars, disposeVars>>

\* the stream throws while it is iterated
StreamBreaks ==
  /\ streamPc = "receiving"
  /\ Fallback("chunk")
  /\ UNCHANGED <<streamCall, fullContent, received, delivered, warned,
                 cacheVars, containerVars, orchVars, parseVars, setVars, disposeVars>>

\* the stream is exhausted: the rest of the try block
StreamEnds ==
  /\ streamPc = "receiving"
  /\ IF trim(fullContent) = ""
     THEN Fallback("empty")
     ELSE /\ streamPc' = "done"
          /\ streamResult' = Returned(fullContent)
          /\ UNCHANGED <<failedAt, fallbackCall, providerVars>>
  /\ UNCHANGED <<streamCall, fullContent, received, delivered, warned,
                 cacheVars, containerVars, orchVars, parseVars, setVars, disposeVars>>

\* the generateContent of the catch block settles
FallbackSettles ==
  /\ streamPc = "fallback"
  /\ providerPc = "done"
  /\ streamPc' = "done"
  /\ streamResult' = providerResult
  /\ UNCHANGED <<streamCall, fullContent, received, delivered, warned, failedAt,
                 fallbackCall, cacheVars, containerVars, providerVars, orchVars, parseVars, setVars, disposeVars>>

-----------------------------------------------------------------------------
(* CodeGenerationService *)

\* the clock of the orchestrator: the instants at which an entry written at
\* time 1 or at its own expiry is stored, expires, and has expired
OrchClockValues ==
  {1 + ttl * MsPerSecond + j : ttl \in {0, GenerationTtl, ValidationTtl}, j \in 0..1}

Slots == 1..MaxCalls

\* str.slice(0, n)
Slice(str, n) == SubSeq(str, 1, Min(n, Len(str)))

RECURSIVE Join(_, _)
\* parts.join(sep)
Join(parts, sep) ==
  IF parts = <<>> THEN ""
  ELSE IF Len(parts) = 1 THEN parts[1]
  ELSE parts[1] \o sep \o Join(Tail(parts), sep)

\* UTF-16 code units, in their order, of the characters file names are made of
CodeUnits == <<".", "/", "0", "1", "2", "3", "4", "5", "6", "7", "8", "9", "A", "B", "C", "D", "E", "F", "G", "H", "I", "J", "K", "L", "M", "N", "O", "P", "Q", "R", "S", "T", "U", "V", "W", "X", "Y", "Z", "_", "a", "b", "c", "d", "e", "f", "g", "h", "i", "j", "k", "l", "m", "n", "o", "p", "q", "r", "s", "t", "u", "v", "w", "x", "y", "z">>

CodeOf(c) == CHOOSE i \in DOMAIN CodeUnits : CodeUnits[i] = c

RECURSIVE Before(_, _)
\* a sorts before b in Array.prototype.sort's default order
Before(a, b) ==
  IF a = "" THEN b # ""
  ELSE IF b = "" THEN FALSE
  ELSE IF Head(a) = Head(b) THEN Before(Tail(a), Tail(b))
  ELSE CodeOf(Head(a)) < CodeOf(Head(b))

RECURSIVE Insert(_, _)
Insert(sorted, name) ==
  IF sorted = <<>> THEN <<name>>
  ELSE IF Before(name, Head(sorted)) THEN <<name>> \o sorted
  ELSE <<Head(sorted)>> \o Insert(Tail(sorted), name)

RECURSIVE Sort(_)
Sort(names) ==
  IF names = <<>> THEN <<>> ELSE Insert(Sort(Tail(names)), Head(names))

\* Object.keys(files)
Keys(files) == [i \in DOMAIN files |-> files[i].name]

Vue == "vue"

SupportedFrameworks ==
  {"react", Vue, "svelte", "angular", "nodejs"}

\* a request: history is JSON.stringify(conversationHistory), "" when the
\* request has none; files are the entries of currentFiles or files
GenerateV == [method |-> "generateCode", framework |-> Vue, prompt |-> "p",
              history |-> "", files |-> <<>>]

ValidateV == [method |-> "validateCode", framework |-> Vue, prompt |-> "",
              history |-> "",
              files |-> <<[name |-> "b", content |-> "2"],
                          [name |-> "a", content |-> "1"]>>]

NoRequest == [method |-> "", framework |-> "", prompt |-> "",
              history |-> "", files |-> <<>>]

StreamingV == [GenerateV EXCEPT !.method = "generateCodeWithStreaming"]

GenerateRequests == {GenerateV}

\* a string of 2^17 characters, more than MaxPromptLength
Doubled(str) == str \o str

LongPrompt ==
  Doubled(Doubled(Doubled(Doubled(Doubled(Doubled(Doubled(Doubled(Doubled(
  Doubled(Doubled(Doubled(Doubled(Doubled(Doubled(Doubled(Doubled("a")))))))))))))))))

\* generateCode requests with an empty, a blank and a too long prompt and
\* with a framework that is not configured
InvalidRequests ==
  {[GenerateV EXCEPT !.prompt = ""], [GenerateV EXCEPT !.prompt = " "],
   [GenerateV EXCEPT !.prompt = LongPrompt], [GenerateV EXCEPT !.framework = "cobol"]}

InputRequests == GenerateRequests \cup InvalidRequests

\* two prompts that differ after their first 100 characters
LongPromptX == Repeat("a", 100) \o "x"

LongPromptY == Repeat("a", 100) \o "y"

\* requests that differ in what they ask for: generateCode with the two
\* long prompts, validateCode for files of the same names with other contents
SimilarRequests ==
  {[GenerateV EXCEPT !.prompt = LongPromptX], [GenerateV EXCEPT !.prompt = LongPromptY],
   ValidateV,
   [ValidateV EXCEPT !.files = <<[name |-> "b", content |-> "2"],
                                 [name |-> "a", content |-> "9"]>>]}

StreamingRequests == {StreamingV}

ValidateRequests == {ValidateV}

generateCacheKey(request) ==
  "code_gen:" \o request.framework \o ":"
    \o Slice(request.prompt, 100) \o ":"
    \o Slice(request.history, 100) \o ":"
    \o Slice(Join(Keys(request.files), ","), 50)

generateValidationCacheKey(request) ==
  "code_validation:" \o request.framework \o ":"
    \o Join(Sort(Keys(request.files)), ",")

CacheKeyOf(request) ==
  IF request.method = "generateCode"
  THEN generateCacheKey(request)
  ELSE generateValidationCacheKey(request)

OrchKeys ==
  {CacheKeyOf(request) : request \in InputRequests \cup ValidateRequests \cup SimilarRequests}

\* a file object of the provider's payload; "" is an absent or empty field
FileObject(name, filename, path, fileName, content, fileContent) ==
  [name |-> name, filename |-> filename, path |-> path, fileName |-> fileName,
   content |-> content, fileContent |-> fileContent]

\* the provider's text as JSON.parse reads it: json is FALSE when it is not
\* JSON; files is "array", "object" or "none"; top is "array" when the whole
\* payload is an array of file objects
Payload(json, top, files, items, message, suggestions) ==
  [json |-> json, top |-> top, files |-> files, items |-> items,
   message |-> message, suggestions |-> suggestions, explanation |-> ""]

NotJson == Payload(FALSE, "object", "none", <<>>, "", "")

NameContent ==
  Payload(TRUE, "object", "array",
          <<FileObject("a", "", "", "", "1", "")>>, "m", "")

FileNameContent ==
  Payload(TRUE, "object", "array",
          <<FileObject("", "", "", "a", "", "2")>>, "", "")

NoFiles == Payload(TRUE, "object", "array", <<>>, "m", "")

GeneratePayloads == {NotJson, NameContent, FileNameContent, NoFiles}

\* payloads with and without "message", "explanation" and "suggestions"
ExplanationOnly == [NameContent EXCEPT !.message = "", !.explanation = "e"]

MessageAndExplanation == [NameContent EXCEPT !.explanation = "e"]

WithSuggestions == [NameContent EXCEPT !.message = "", !.suggestions = "[\"s\"]"]

MessagePayloads ==
  {NameContent, FileNameContent, ExplanationOnly, MessageAndExplanation, WithSuggestions}

\* a validation payload: isValid is "true", "false" or "none"
Verdict(json, isValid) == [json |-> json, isValid |-> isValid]

ValidatePayloads == {Verdict(FALSE, "none"), Verdict(TRUE, "none"), Verdict(TRUE, "false")}

\* files[name] = content
ObjectSet(files, name, content) ==
  IF \E i \in DOMAIN files : files[i].name = name
  THEN [i \in DOMAIN files |->
          IF files[i].name = name THEN [name |-> name, content |-> content] ELSE files[i]]
  ELSE Append(files, [name |-> name, content |-> content])

\* the body of parsed.files.forEach
AddFile(files, file) ==
  IF file.name # "" /\ file.content # ""
  THEN ObjectSet(files, file.name, file.content)
  ELSE IF file.filename # "" /\ file.content # ""
  THEN ObjectSet(files, file.filename, file.content)
  ELSE IF file.path # "" /\ file.content # ""
  THEN ObjectSet(files, file.path, file.content)
  ELSE IF file.fileName # "" /\ file.fileContent # ""
  THEN ObjectSet(files, file.fileName, file.fileContent)
  ELSE files

RECURSIVE CollectFiles(_, _)
CollectFiles(items, files) ==
  IF items = <<>> THEN files ELSE CollectFiles(Tail(items), AddFile(files, Head(items)))

\* backslash-escaping of backslash, quote, newline, carriage return and tab
EscapeOf(ch) ==
  CASE ch = "\\" -> "\\\\"
    [] ch = "\"" -> "\\\""
    [] ch = "\n" -> "\\n"
    [] ch = "\r" -> "\\r"
    [] ch = "\t" -> "\\t"
    [] OTHER     -> ch

RECURSIVE Escaped(_)
Escaped(str) == IF str = "" THEN "" ELSE EscapeOf(Head(str)) \o Escaped(Tail(str))

\* JSON.stringify of a string
Quoted(str) == "\"" \o Escaped(str) \o "\""

\* JSON.stringify of a response object
StringifyFiles(files) ==
  "{" \o Join([i \in DOMAIN files |->
                     Quoted(files[i].name) \o ":" \o Quoted(files[i].content)],
                   ",") \o "}"

ObjectValue(text) == [t |-> "object", s |-> text]

GenerateCodeResponse(files, message, suggestions) ==
  ObjectValue("{\"files\":" \o StringifyFiles(files)
              \o ",\"message\":" \o Quoted(message)
              \o ",\"suggestions\":" \o suggestions \o "}")

ValidateCodeResponse(isValid) ==
  ObjectValue("{\"isValid\":" \o (IF isValid THEN "true" ELSE "false")
              \o ",\"errors\":[],\"warnings\":[],\"suggestions\":[]}")

Parsed(value) == [ok |-> TRUE, value |-> value]

ParseFailed == [ok |-> FALSE, value |-> NoValue]

DefaultMessage(framework) == "Generated " \o framework \o " application successfully"

parseGeneratedResponse(content, framework) ==
  LET files ==
        IF content.files = "array" THEN CollectFiles(content.items, <<>>)
        ELSE IF content.files = "object" THEN content.items
        ELSE IF content.top = "array" THEN CollectFiles(content.items, <<>>)
        ELSE <<>>
  IN  IF ~content.json \/ files = <<>>
      THEN ParseFailed
      ELSE Parsed(GenerateCodeResponse(
             files,
             IF content.message # "" THEN content.message ELSE DefaultMessage(framework),
             IF content.suggestions # "" THEN content.suggestions ELSE "[]"))

parseValidationResponse(content) ==
  IF ~content.json
  THEN ParseFailed
  ELSE Parsed(ValidateCodeResponse(
         IF content.isValid = "none" THEN TRUE ELSE content.isValid = "true"))

\* a cached result that never counts
TruthyNever(value) == FALSE

\* if (cachedResult)
Truthy(value) ==
  CASE value.t = "null"    -> FALSE
    [] value.t = "string"  -> value.s # ""
    [] value.t = "number"  -> value.s \notin {"0", "NaN"}
    [] value.t = "boolean" -> value.s = "true"
    [] OTHER               -> TRUE

CacheTtlGenerationOnly(method) == GenerationTtl

\* the ttl generateCode and validateCode hand to cacheService.set
CacheTtl(method) == IF method = "generateCode" THEN GenerationTtl ELSE ValidationTtl

\* every method hands its result to cacheService.set
CachesResultAlways(method) == TRUE

\* no method hands its result to cacheService.set
CachesResultNever(method) == FALSE

\* whether the method hands its parsed result to cacheService.set
CachesResult(method) == method \in {"generateCode", "validateCode"}

\* the category of the AppError a call throws for an error that is no AppError
\* an error without a category
CategoryOfNothing(method) == ""

CategoryOf(method) == IF method = "generateCode" THEN "internal_server" ELSE "external_api"

Idle == [state |-> "idle", request |-> NoRequest, key |-> "", providerCalls |-> 0]

NoWrite == [value |-> NoValue, at |-> 0, providerCalls |-> 0, request |-> NoRequest]

\* written, for the keys that are still stored
Prune(w, c) == [k \in DOMAIN w |-> IF k \in KeysOf(c) THEN w[k] ELSE NoWrite]

CallRecord(phase, request, key, hit, ok, value, category, providerCalls) ==
  [phase |-> phase, op |-> request.method, request |-> request, key |-> key,
   hit |-> hit, ok |-> ok, value |-> value, category |-> category,
   providerCalls |-> providerCalls]

\* PromptService.buildGenerationPrompt: the code-generation template, cut
\* down to its first sentence and the USER REQUEST line
buildGenerationPrompt(request) ==
  "You are an expert " \o request.framework \o " developer.\n\nUSER REQUEST: "
    \o trim(request.prompt)

\* llmProvider.generateContent throws from validatePrompt, before its loop
PromptRejected(request) ==
  /\ request.method # "validateCode"
  /\ validatePrompt(buildGenerationPrompt(request)) # ""

\* generateCode and validateCode up to the await of llmProvider.generateContent;
\* a call takes the first free slot
BeginCall(slot, request) ==
  LET key == CacheKeyOf(request)
      r   == GetResult(cache, currentSize, clock, key)
  IN  /\ calls[slot].state = "idle"
      /\ \A other \in 1..(slot - 1) : calls[other].state # "idle"
      /\ cache' = r.cache
      /\ currentSize' = r.currentSize
      /\ written' = Prune(written, r.cache)
      /\ IF Truthy(r.value)
         THEN /\ calls' = calls
              /\ lastCall' = CallRecord("begin", request, key, TRUE, TRUE, r.value, "", 0)
         ELSE IF request.framework \notin SupportedFrameworks
         THEN /\ calls' = calls
              /\ lastCall' = CallRecord("begin", request, key, FALSE, FALSE, NoValue,
                                        CategoryOf(request.method), 0)
         ELSE IF PromptRejected(request)
         THEN /\ calls' = calls
              /\ lastCall' = CallRecord("begin", request, key, FALSE, FALSE, NoValue,
                                        CategoryOf(request.method), 1)
         ELSE /\ calls' = [calls EXCEPT ![slot] =
                             [state |-> "provider", request |-> request, key |-> key,
                              providerCalls |-> 1]]
              /\ lastCall' = CallRecord("begin", request, key, FALSE, FALSE, NoValue, "", 1)
      /\ UNCHANGED <<clock, lastOp, script, containerVars, streamVars, parseVars, setVars, disposeVars>>

\* the same with the provider left to ProviderReturns and ProviderThrows
Begin(slot, request) == BeginCall(slot, request) /\ UNCHANGED providerVars

GenerateCode(slot, request) == request.method = "generateCode" /\ Begin(slot, request)

ValidateCode(slot, request) == request.method = "validateCode" /\ Begin(slot, request)

\* generateCodeWithStreaming up to llmProvider.generateContentStream
GenerateCodeWithStreaming(slot, request) ==
  /\ request.method = "generateCodeWithStreaming"
  /\ calls[slot].state = "idle"
  /\ \A other \in 1..(slot - 1) : calls[other].state # "idle"
  /\ IF request.framework \notin SupportedFrameworks
     THEN /\ calls' = calls
          /\ lastCall' = CallRecord("begin", request, "", FALSE, FALSE, NoValue,
                                    CategoryOf(request.method), 0)
     ELSE IF PromptRejected(request)
     THEN /\ calls' = calls
          /\ lastCall' = CallRecord("begin", request, "", FALSE, FALSE, NoValue,
                                    CategoryOf(request.method), 1)
     ELSE /\ calls' = [calls EXCEPT ![slot] =
                         [state |-> "provider", request |-> request, key |-> "",
                          providerCalls |-> 1]]
          /\ lastCall' = CallRecord("begin", request, "", FALSE, FALSE, NoValue, "", 1)
  /\ UNCHANGED <<written, cacheVars, containerVars, providerVars, streamVars, parseVars, setVars, disposeVars>>

\* the statements of generateCode, generateCodeWithStreaming and validateCode
\* that follow the provider call, for a text that JSON.parse reads as content
FinishCall(slot, content) ==
  LET call   == calls[slot]
      method == call.request.method
      parsed == IF method = "validateCode"
                THEN parseValidationResponse(content)
                ELSE parseGeneratedResponse(content, call.request.framework)
      r      == SetResult(cache, currentSize, clock, call.key, parsed.value,
                          <<CacheTtl(method)>>)
  IN  /\ call.state = "provider"
      /\ calls' = [calls EXCEPT ![slot] = Idle]
      /\ IF parsed.ok /\ ~CachesResult(method)
         THEN /\ lastCall' = CallRecord("end", call.request, call.key, FALSE, TRUE,
                                        parsed.value, "", call.providerCalls)
              /\ UNCHANGED <<cache, currentSize, clock, written>>
         ELSE IF parsed.ok
         THEN /\ r.clock \in OrchClockValues
              /\ cache' = r.cache
              /\ currentSize' = r.currentSize
              /\ clock' = r.clock
              /\ written' = Prune([written EXCEPT ![call.key] =
                                     [value |-> parsed.value, at |-> clock,
                                      providerCalls |-> call.providerCalls,
                                      request |-> call.request]], r.cache)
              /\ lastCall' = CallRecord("end", call.request, call.key, FALSE, TRUE,
                                        parsed.value, "", call.providerCalls)
         ELSE /\ lastCall' = CallRecord("end", call.request, call.key, FALSE, FALSE,
                                        NoValue, "external_api", call.providerCalls)
              /\ UNCHANGED <<cache, currentSize, clock, written>>
      /\ UNCHANGED <<lastOp, script, containerVars, providerVars, streamVars, setVars, disposeVars>>

\* llmProvider.generateContent or generateContentStream returns: the rest of
\* generateCode, generateCodeWithStreaming or validateCode
ProviderReturns(slot, content) ==
  /\ content \in (IF calls[slot].request.method = "validateCode"
                   THEN ValidatePayloads ELSE GeneratePayloads)
  /\ FinishCall(slot, content)
  /\ UNCHANGED parseVars

\* llmProvider.generateContent returns a payload with files
ProviderAnswers(slot, content) ==
  /\ calls[slot].request.method = "generateCode"
  /\ content \in MessagePayloads
  /\ FinishCall(slot, content)
  /\ UNCHANGED parseVars

\* FENCE, the three grave accents that open and close a code block; a
\* string here cannot hold a grave accent, so a tilde stands for it
Fence == "~~~"

\* str[i]
At(str, i) == SubSeq(str, i, i)

\* part is found in str at i
StartsWithAt(str, i, part) ==
  i + Len(part) - 1 <= Len(str) /\ SubSeq(str, i, i + Len(part) - 1) = part

\* where \\s* that starts at i ends
RECURSIVE SkipSpace(_, _)
SkipSpace(str, i) ==
  IF i <= Len(str) /\ At(str, i) \in WhiteSpace THEN SkipSpace(str, i + 1) ELSE i

\* the first index from i on that holds ch, 0 when there is none
RECURSIVE IndexFrom(_, _, _)
IndexFrom(str, ch, i) ==
  IF i > Len(str) THEN 0
  ELSE IF At(str, i) = ch THEN i
  ELSE IndexFrom(str, ch, i + 1)

\* the last index up to i that satisfies closes, 0 when there is none
RECURSIVE LastClosing(_, _, _)
LastClosing(str, i, fenced) ==
  IF i < 1 THEN 0
  ELSE IF At(str, i) = "}"
          /\ (~fenced \/ StartsWithAt(str, SkipSpace(str, i + 1), Fence))
  THEN i
  ELSE LastClosing(str, i - 1, fenced)

\* content.match(/\{[\s\S]*\}/): the match, "" when there is none
jsonMatch(content) ==
  LET start == IndexFrom(content, "{", 1)
      end   == LastClosing(content, Len(content), FALSE)
  IN  IF start # 0 /\ end > start THEN SubSeq(content, start, end) ELSE ""

\* the group of /FENCE(?:json)?\s*(\{[\s\S]*\})\s*FENCE/ for a match that
\* starts at i, "" when there is none
FenceAt(content, i) ==
  LET afterTicks == i + 3
      afterJson  == IF StartsWithAt(content, afterTicks, "json")
                       /\ At(content, SkipSpace(content, afterTicks + 4)) = "{"
                    THEN afterTicks + 4 ELSE afterTicks
      start      == SkipSpace(content, afterJson)
      end        == LastClosing(content, Len(content), TRUE)
  IN  IF StartsWithAt(content, i, Fence) /\ start <= Len(content)
         /\ At(content, start) = "{" /\ end > start
      THEN SubSeq(content, start, end) ELSE ""

\* the group of content.match(/FENCE(?:json)?\s*(\{[\s\S]*\})\s*FENCE/), ""
\* when there is no match
RECURSIVE codeBlockMatch(_, _)
codeBlockMatch(content, i) ==
  IF i > Len(content) THEN ""
  ELSE IF FenceAt(content, i) # "" THEN FenceAt(content, i)
  ELSE codeBlockMatch(content, i + 1)

\* the end of the match of "([^"]*(?:\\.[^"]*)*)"(?=\s*[,}]) whose opening
\* quote is before i: the index of its closing quote, 0 when there is none
RECURSIVE ClosingQuote(_, _)
ClosingQuote(str, i) ==
  LET quote == IndexFrom(str, "\"", i)
      next  == SkipSpace(str, quote + 1)
  IN  IF quote = 0 THEN 0
      ELSE IF next <= Len(str) /\ At(str, next) \in {",", "}"} THEN quote
      ELSE IF quote > i /\ At(str, quote - 1) = "\\" THEN ClosingQuote(str, quote + 1)
      ELSE 0

\* the match of /"field":\s*"([^"]*(?:\\.[^"]*)*)"(?=\s*[,}])/ that starts at i
FieldMatch(str, field, i) ==
  LET head  == "\"" \o field \o "\":"
      open  == SkipSpace(str, i + Len(head))
      close == ClosingQuote(str, open + 1)
  IN  IF StartsWithAt(str, i, head) /\ open <= Len(str) /\ At(str, open) = "\""
         /\ close # 0
      THEN [open |-> open, close |-> close]
      ELSE [open |-> 0, close |-> 0]

\* a replace that leaves the text as it is
ReplaceNothing(str, field, i) == SubSeq(str, i, Len(str))

\* cleaned.replace(/"field":.../g, ...) from i on
RECURSIVE ReplaceField(_, _, _)
ReplaceField(str, field, i) ==
  IF i > Len(str) THEN ""
  ELSE IF FieldMatch(str, field, i).close # 0
  THEN "\"" \o field \o "\": \""
         \o Escaped(SubSeq(str, FieldMatch(str, field, i).open + 1,
                           FieldMatch(str, field, i).close - 1))
         \o "\"" \o ReplaceField(str, field, FieldMatch(str, field, i).close + 1)
  ELSE At(str, i) \o ReplaceField(str, field, i + 1)

\* the texts the provider answers with
GoodText == "{\"files\":[{\"name\":\"a\",\"content\":\"1\"}],\"message\":\"m\"}"

\* a raw newline inside the content string
BrokenText == "{\"files\":[{\"name\":\"a\",\"content\":\"1\n\"}],\"message\":\"m\"}"

RepairedText ==
  "{\"files\":[{\"name\":\"a\",\"content\": \"1\\n\"}],\"message\":\"m\"}"

TruncatedText == "{\"files\":[}"

PlainText == "Sorry"

FencedText == Fence \o "json\n" \o BrokenText \o "\n" \o Fence

ProseText == "Here: " \o GoodText \o " done"

EmptyFilesText == "{\"files\":[],\"message\":\"m\"}"

\* one file, path a and content 1, in the shapes a provider gives it
NameText == "{\"files\":[{\"name\":\"a\",\"content\":\"1\"}]}"

FileNameText == "{\"files\":[{\"fileName\":\"a\",\"fileContent\":\"1\"}]}"

PathText == "{\"files\":[{\"path\":\"a\",\"content\":\"1\"}]}"

\* the whole payload is the array of file objects
ArrayText == "[{\"name\":\"a\",\"content\":\"1\"}]"

\* what /\{[\s\S]*\}/ cuts from ArrayText
ArrayCutText == "{\"name\":\"a\",\"content\":\"1\"}"

FileTexts == {NameText, FileNameText, PathText, ArrayText}

\* an unescaped double quote inside the content string
QuoteText == "{\"files\":[{\"name\":\"a\",\"content\":\"say \"hi\"\"}]}"

\* QuoteText with the quotes of the content escaped
QuoteRepairedText == "{\"files\":[{\"name\":\"a\",\"content\": \"say \\\"hi\\\"\"}]}"

FencedQuoteText == Fence \o "json\n" \o QuoteText \o "\n" \o Fence

Texts == {GoodText, BrokenText, TruncatedText, PlainText, FencedText, ProseText,
          EmptyFilesText, FencedQuoteText} \cup FileTexts

NewlineContent ==
  Payload(TRUE, "object", "array",
          <<FileObject("a", "", "", "", "1\n", "")>>, "m", "")

\* JSON.parse, for the texts of the model and what is cut or made from them
JsonParse(str) ==
  CASE str = GoodText       -> NameContent
    [] str = RepairedText   -> NewlineContent
    [] str = EmptyFilesText -> NoFiles
    [] str = NameText       ->
         Payload(TRUE, "object", "array", <<FileObject("a", "", "", "", "1", "")>>, "", "")
    [] str = FileNameText   ->
         Payload(TRUE, "object", "array", <<FileObject("", "", "", "a", "", "1")>>, "", "")
    [] str = PathText       ->
         Payload(TRUE, "object", "array", <<FileObject("", "", "a", "", "1", "")>>, "", "")
    [] str = ArrayText      ->
         Payload(TRUE, "array", "none", <<FileObject("a", "", "", "", "1", "")>>, "", "")
    [] str = ArrayCutText   -> Payload(TRUE, "object", "none", <<>>, "", "")
    [] str = "{}"           -> Payload(TRUE, "object", "none", <<>>, "", "")
    [] str = QuoteRepairedText ->
         Payload(TRUE, "object", "array",
                 <<FileObject("a", "", "", "", "say \"hi\"", "")>>, "", "")
    [] OTHER                -> NotJson

\* cleanJsonString: the text it returns, the repair passes it applied and
\* the JSON.parse calls it made on the repaired text
cleanJsonString(jsonStr) ==
  IF JsonParse(jsonStr).json
  THEN [text |-> jsonStr, repairs |-> 0, reparsed |-> 0]
  ELSE LET cleaned == ReplaceField(ReplaceField(jsonStr, "fileContent", 1), "content", 1)
       IN  [text |-> IF JsonParse(cleaned).json THEN cleaned ELSE jsonStr,
            repairs |-> 1, reparsed |-> 1]

\* extractJsonFromContent, and which of its three ways it went
extractJsonFromContent(content) ==
  IF codeBlockMatch(content, 1) # ""
  THEN [span |-> "fenced", from |-> codeBlockMatch(content, 1)]
         @@ cleanJsonString(codeBlockMatch(content, 1))
  ELSE IF jsonMatch(content) # ""
  THEN [span |-> "bare", from |-> jsonMatch(content)] @@ cleanJsonString(jsonMatch(content))
  ELSE [span |-> "none", from |-> content, text |-> content, repairs |-> 0, reparsed |-> 0]

NoRepair == [content |-> "", span |-> "none", from |-> "", text |-> "",
             repairs |-> 0, reparsed |-> 0]

\* llmProvider.generateContent returns a text: parseGeneratedResponse from
\* extractJsonFromContent on, and the rest of generateCode
ProviderReturnsText(slot, content) ==
  \E extracted \in {extractJsonFromContent(content)} :
      /\ calls[slot].request.method = "generateCode"
      /\ FinishCall(slot, JsonParse(extracted.text))
      /\ repairLog' = [content |-> content] @@ extracted

\* the record of a step in which a call of the cache service rejected
Faulted(fault, record) == [fault |-> fault] @@ record

\* generateCode when cacheService.get rejects: the catch block
GenerateCodeGetThrows(slot, request) ==
  /\ request.method = "generateCode"
  /\ calls[slot].state = "idle"
  /\ \A other \in 1..(slot - 1) : calls[other].state # "idle"
  /\ lastCall' = Faulted("get", CallRecord("end", request, CacheKeyOf(request), FALSE,
                                            FALSE, NoValue, CategoryOf(request.method), 0))
  /\ UNCHANGED <<calls, written, cacheVars, containerVars, providerVars, streamVars,
                 parseVars, setVars, disposeVars>>

\* generateCode when the provider's text parsed and cacheService.set
\* rejects: the catch block
ProviderReturnsSetThrows(slot, content) ==
  LET call == calls[slot]
  IN  /\ call.state = "provider"
      /\ call.request.method = "generateCode"
      /\ parseGeneratedResponse(content, call.request.framework).ok
      /\ calls' = [calls EXCEPT ![slot] = Idle]
      /\ lastCall' = Faulted("set", CallRecord("end", call.request, call.key, FALSE,
                                                FALSE, NoValue,
                                                CategoryOf(call.request.method),
                                                call.providerCalls))
      /\ UNCHANGED <<written, cacheVars, containerVars, providerVars, streamVars,
                     parseVars, setVars, disposeVars>>

\* llmProvider.generateContent throws: the catch block
ProviderThrows(slot) ==
  LET call == calls[slot]
  IN  /\ call.state = "provider"
      /\ calls' = [calls EXCEPT ![slot] = Idle]
      /\ lastCall' = CallRecord("end", call.request, call.key, FALSE, FALSE, NoValue,
                                CategoryOf(call.request.method), call.providerCalls)
      /\ UNCHANGED <<written, cacheVars, containerVars, providerVars, streamVars, parseVars, setVars, disposeVars>>

\* LLMService: the provider's text as JSON.parse reads it; files is "array",
\* "object" or "none"
LlmPayload(json, files, items, explanation, suggestions) ==
  [json |-> json, files |-> files, items |-> items,
   explanation |-> explanation, suggestions |-> suggestions]

LlmNotJson == LlmPayload(FALSE, "none", <<>>, "", "")

LlmNoFilesField == LlmPayload(TRUE, "none", <<>>, "e", "")

LlmEmptyFiles == LlmPayload(TRUE, "array", <<>>, "e", "")

LlmNameContent ==
  LlmPayload(TRUE, "array", <<FileObject("a", "", "", "", "1", "")>>, "", "")

LlmFileNameContent ==
  LlmPayload(TRUE, "array", <<FileObject("", "", "", "a", "", "2")>>, "e", "")

LlmPayloads == {LlmNotJson, LlmNoFilesField, LlmEmptyFiles, LlmNameContent, LlmFileNameContent}

LlmGenerateV == [GenerateV EXCEPT !.method = "LLMService.generateCode"]

LlmStreamingV == [GenerateV EXCEPT !.method = "LLMService.generateCodeWithStreaming"]

\* the reduce of LLMService.parseGenerationResponse
RECURSIVE ReduceFiles(_, _)
ReduceFiles(items, acc) ==
  IF items = <<>> THEN acc
  ELSE ReduceFiles(Tail(items),
                   IF Head(items).fileName # "" /\ Head(items).fileContent # ""
                   THEN ObjectSet(acc, Head(items).fileName, Head(items).fileContent)
                   ELSE acc)

\* the result LLMService.parseGenerationResponse returns from its catch block
LlmMalformed ==
  GenerateCodeResponse(
    <<>>,
    "Failed to generate code. The AI response was malformed. Please try again.",
    "[\"Try rephrasing your request\",\"Be more specific about requirements\"]")

\* LLMService.parseGenerationResponse: it returns in every case
parseGenerationResponse(content) ==
  IF ~content.json \/ content.files # "array"
  THEN LlmMalformed
  ELSE GenerateCodeResponse(
         ReduceFiles(content.items, <<>>),
         IF content.explanation # "" THEN content.explanation
         ELSE "Code generated successfully",
         IF content.suggestions # "" THEN content.suggestions ELSE "[]")

\* LLMService.generateCode and generateCodeWithStreaming up to the await
LlmGenerate(slot, request) ==
  /\ calls[slot].state = "idle"
  /\ \A other \in 1..(slot - 1) : calls[other].state # "idle"
  /\ calls' = [calls EXCEPT ![slot] =
                 [state |-> "llm", request |-> request, key |-> "", providerCalls |-> 1]]
  /\ lastCall' = CallRecord("begin", request, "", FALSE, FALSE, NoValue, "", 1)
  /\ UNCHANGED <<written, cacheVars, containerVars, providerVars, streamVars, parseVars, setVars, disposeVars>>

LlmGenerateCode(slot) == LlmGenerate(slot, LlmGenerateV)

LlmGenerateCodeWithStreaming(slot) == LlmGenerate(slot, LlmStreamingV)

\* the model answers: return this.parseGenerationResponse(text)
LlmReturns(slot, content) ==
  LET call == calls[slot]
  IN  /\ call.state = "llm"
      /\ calls' = [calls EXCEPT ![slot] = Idle]
      /\ lastCall' = CallRecord("end", call.request, "", FALSE, TRUE,
                                parseGenerationResponse(content), "", call.providerCalls)
      /\ UNCHANGED <<written, cacheVars, containerVars, providerVars, streamVars, parseVars, setVars, disposeVars>>

\* the model call or the stream throws: generateCode throws a plain Error,
\* generateCodeWithStreaming falls back to generateCode
LlmThrows(slot) ==
  LET call == calls[slot]
  IN  /\ call.state = "llm"
      /\ IF call.request = LlmStreamingV
         THEN /\ calls' = [calls EXCEPT ![slot] =
                             [state |-> "llm", request |-> LlmGenerateV, key |-> "",
                              providerCalls |-> call.providerCalls + 1]]
              /\ lastCall' = CallRecord("fallback", call.request, "", FALSE, FALSE,
                                        NoValue, "", call.providerCalls + 1)
         ELSE /\ calls' = [calls EXCEPT ![slot] = Idle]
              /\ lastCall' = CallRecord("end", call.request, "", FALSE, FALSE,
                                        NoValue, "", call.providerCalls)
      /\ UNCHANGED <<written, cacheVars, containerVars, providerVars, streamVars, parseVars, setVars, disposeVars>>

\* time passes between two steps of the orchestrator
OrchTick ==
  /\ \E t \in OrchClockValues : t > clock /\ clock' = t
  /\ lastCall' = CallRecord("tick", NoRequest, "", FALSE, FALSE, NoValue, "", 0)
  /\ UNCHANGED <<cache, currentSize, lastOp, script, calls, written,
                 containerVars, providerVars, streamVars, parseVars, setVars, disposeVars>>

-----------------------------------------------------------------------------

InitCache ==
  /\ cache = <<>>
  /\ currentSize = 0
  /\ clock = 1
  /\ lastOp = Other("init")
  /\ script = 0

InitContainer ==
  /\ containers = {"root"}
  /\ services = [c \in {"root", "child"} |-> [t \in Tokens |-> NoRegistration]]
  /\ instances = [c \in {"root", "child"} |-> [t \in Tokens |-> 0]]
  /\ resolutionStack = [c \in {"root", "child"} |-> <<>>]
  /\ nextId = 0
  /\ built = [t \in Tokens |-> 0]
  /\ returned = [t \in Tokens |-> {}]
  /\ lastResolve = [op |-> "init", container |-> "root", token |-> "",
                    outcome |-> "ok", instance |-> 0, chain |-> <<>>,
                    fresh |-> FALSE, log |-> <<>>]

InitProvider ==
  /\ retries = DefaultRetries
  /\ providerPc = "idle"
  /\ attempt = 1
  /\ lastError = ""
  /\ providerResult = NoResult
  /\ attemptLog = <<>>
  /\ delays = <<>>

InitOrch ==
  /\ calls = [slot \in Slots |-> Idle]
  /\ written = [k \in OrchKeys |-> NoWrite]
  /\ lastCall = CallRecord("init", NoRequest, "", FALSE, FALSE, NoValue, "", 0)

InitStream ==
  /\ streamPc = "idle"
  /\ streamCall = NoStreamCall
  /\ fullContent = ""
  /\ received = <<>>
  /\ delivered = <<>>
  /\ warned = <<>>
  /\ failedAt = "none"
  /\ fallbackCall = NoGenerateCall
  /\ streamResult = NoResult

InitParse == repairLog = NoRepair

InitSet == pending = [id \in Slots |-> NotPending]

InitDispose == disposal = NoDisposal

Init ==
  /\ InitCache /\ InitContainer /\ InitProvider /\ InitOrch /\ InitStream /\ InitParse
  /\ InitSet /\ InitDispose

NextCache ==
  \/ \E k \in CacheKeys, v \in CacheValues, ttl \in TtlArgs : Set(k, v, ttl)
  \/ \E k \in CacheKeys : Get(k)
  \/ \E k \in CacheKeys : Has(k)
  \/ \E k \in CacheKeys : Delete(k)
  \/ Clear
  \/ Cleanup
  \/ Tick

SpecCache == Init /\ [][NextCache]_vars

\* the cache with its cleanup timer: set and get on two keys, the time, and
\* the callback of setInterval
SweepKeys == {"A", "B"}

NextSweep ==
  \/ \E k \in SweepKeys, ttl \in TtlArgs : Set(k, BoolTrue, ttl)
  \/ \E k \in SweepKeys : Get(k)
  \/ Cleanup
  \/ Tick

SpecSweep == Init /\ [][NextSweep]_vars

\* while the timer runs its callback is called again and again
SpecSweepFair == SpecSweep /\ WF_vars(Cleanup)

NextContainer ==
  \/ \E t \in Tokens, s \in BOOLEAN : Register("root", t, ClassOf(t), s)
  \/ \E t \in Tokens : RegisterInstance("root", t)
  \/ \E c \in {"root", "child"}, t \in Tokens : Resolve(c, t)
  \/ CreateChildContainer

SpecContainer == Init /\ [][NextContainer]_vars

\* classes whose constructors throw or resolve from the container
NextResolve ==
  \/ \E t \in Tokens, i \in ResolveClasses, s \in BOOLEAN : Register("root", t, i, s)
  \/ \E t \in Tokens : RegisterInstance("root", t)
  \/ \E c \in {"root", "child"}, t \in Tokens : Resolve(c, t)
  \/ CreateChildContainer

SpecResolve == Init /\ [][NextResolve]_vars

NextProvider ==
  \/ \E configured \in 0..MaxRetries : Construct(configured)
  \/ \E prompt \in Prompts : GenerateContent(prompt)
  \/ \E outcome \in Outcomes : RequestSettles(outcome)
  \/ SleepEnds

SpecProvider == Init /\ [][NextProvider]_vars

\* attempts that fail and are retried, on providers with the default and
\* with many retries
FailingOutcomes ==
  {TimedOut, Rejected(NetworkMessage), Answered(BlankText), Answered(SomeText),
   Rejected(KeyMessage)}

NextBackoff ==
  \/ \E configured \in {0, ManyRetries} : Construct(configured)
  \/ GenerateContent("hi")
  \/ \E outcome \in FailingOutcomes : RequestSettles(outcome)
  \/ SleepEnds

SpecBackoff == Init /\ [][NextBackoff]_vars

NextOrch ==
  \/ \E slot \in Slots, request \in GenerateRequests : GenerateCode(slot, request)
  \/ \E slot \in Slots, request \in ValidateRequests : ValidateCode(slot, request)
  \/ \E slot \in Slots, content \in GeneratePayloads \cup ValidatePayloads :
       ProviderReturns(slot, content)
  \/ \E slot \in Slots : ProviderThrows(slot)
  \/ OrchTick

SpecOrch == Init /\ [][NextOrch]_vars

NextStream ==
  \/ \E prompt \in Prompts, config \in RequestConfigs, onChunk \in BOOLEAN :
       GenerateContentStream(prompt, config, onChunk)
  \/ StreamOpens
  \/ StreamOpenFails
  \/ \E chunk \in Chunks, throws \in BOOLEAN : ChunkArrives(chunk, throws)
  \/ StreamBreaks
  \/ StreamEnds
  \/ \E outcome \in FallbackOutcomes : RequestSettles(outcome)
  \/ SleepEnds
  \/ FallbackSettles

SpecStream == Init /\ [][NextStream]_vars

\* chunks of an answer: narration, a brace, a code fence, blank text
NarrationChunks == {ChunkOf("hi"), ChunkOf("{"), ChunkOf(Fence), ChunkOf(" ")}

\* the callback the streaming route hands to generateCodeWithStreaming
\* writes a chunk to the response when this holds
LooksLikeNarration(chunk) ==
  /\ ~includes(chunk, Fence)
  /\ ~includes(chunk, "{")
  /\ ~includes(chunk, "}")
  /\ trim(chunk) # ""

\* generateCodeWithStreaming hands the caller's onChunk to
\* llmProvider.generateContentStream as it got it and parses the text that
\* call returns
NextNarration ==
  \/ GenerateContentStream("hi", "given", TRUE)
  \/ StreamOpens
  \/ StreamOpenFails
  \/ \E chunk \in NarrationChunks : ChunkArrives(chunk, FALSE)
  \/ StreamBreaks
  \/ StreamEnds
  \/ \E outcome \in FallbackOutcomes : RequestSettles(outcome)
  \/ SleepEnds
  \/ FallbackSettles

SpecNarration == Init /\ [][NextNarration]_vars

NextGeneration ==
  \/ \E slot \in Slots, request \in GenerateRequests : GenerateCode(slot, request)
  \/ \E slot \in Slots, request \in StreamingRequests :
       GenerateCodeWithStreaming(slot, request)
  \/ \E slot \in Slots, content \in GeneratePayloads : ProviderReturns(slot, content)
  \/ \E slot \in Slots : ProviderThrows(slot)
  \/ OrchTick

SpecGeneration == Init /\ [][NextGeneration]_vars

NextLlmService ==
  \/ \E slot \in Slots : LlmGenerateCode(slot)
  \/ \E slot \in Slots : LlmGenerateCodeWithStreaming(slot)
  \/ \E slot \in Slots, content \in LlmPayloads : LlmReturns(slot, content)
  \/ \E slot \in Slots : LlmThrows(slot)
  \/ OrchTick

SpecLlmService == Init /\ [][NextLlmService]_vars

NextMessage ==
  \/ \E slot \in Slots, request \in GenerateRequests : GenerateCode(slot, request)
  \/ \E slot \in Slots, content \in MessagePayloads : ProviderAnswers(slot, content)
  \/ OrchTick

SpecMessage == Init /\ [][NextMessage]_vars

NextRepair ==
  \/ \E slot \in Slots, request \in GenerateRequests : GenerateCode(slot, request)
  \/ \E slot \in Slots, content \in Texts : ProviderReturnsText(slot, content)
  \/ \E slot \in Slots : ProviderThrows(slot)
  \/ OrchTick

SpecRepair == Init /\ [][NextRepair]_vars

NextCacheFault ==
  \/ \E slot \in Slots, request \in GenerateRequests : GenerateCode(slot, request)
  \/ \E slot \in Slots, request \in GenerateRequests :
       GenerateCodeGetThrows(slot, request)
  \/ \E slot \in Slots, content \in GeneratePayloads : ProviderReturns(slot, content)
  \/ \E slot \in Slots, content \in GeneratePayloads :
       ProviderReturnsSetThrows(slot, content)
  \/ \E slot \in Slots : ProviderThrows(slot)
  \/ OrchTick

SpecCacheFault == Init /\ [][NextCacheFault]_vars

\* one call at a time
NextInvalidInput ==
  \/ \E request \in InputRequests : GenerateCode(1, request)
  \/ \E content \in GeneratePayloads : ProviderReturns(1, content)
  \/ ProviderThrows(1)
  \/ OrchTick

SpecInvalidInput == Init /\ [][NextInvalidInput]_vars

\* singletons only: transient instances are not kept by the container
NextDispose ==
  \/ \E t \in Tokens : Register("root", t, ClassOf(t), TRUE)
  \/ \E t \in Tokens : RegisterInstance("root", t)
  \/ \E t \in Tokens : Resolve("root", t)
  \/ \E hooks \in HookChoices : Dispose(hooks)
  \/ DisposeSettles

SpecDispose == Init /\ [][NextDispose]_vars

\* one call at a time
NextSimilar ==
  \/ \E request \in SimilarRequests : GenerateCode(1, request)
  \/ \E request \in SimilarRequests : ValidateCode(1, request)
  \/ \E content \in GeneratePayloads \cup ValidatePayloads : ProviderReturns(1, content)
  \/ ProviderThrows(1)
  \/ OrchTick

SpecSimilar == Init /\ [][NextSimilar]_vars

\* generateCode with the GeminiProvider as its llmProvider, one call at a
\* time: up to the first await inside llmProvider.generateContent
GenerateCodeCalled(request) ==
  /\ request.method = "generateCode"
  /\ providerPc \in {"idle", "done"}
  /\ BeginCall(1, request)
  /\ IF calls'[1].state = "provider"
     THEN StartGenerate(buildGenerationPrompt(request))
     ELSE UNCHANGED providerVars

\* llmProvider.generateContent has returned or thrown: the rest of generateCode
GenerateContentSettles ==
  /\ calls[1].state = "provider"
  /\ providerPc = "done"
  /\ IF providerResult.ok
     THEN ProviderReturnsText(1, providerResult.text)
     ELSE ProviderThrows(1)

\* what an attempt of the provider ends in, for generateCode
RequestOutcomes ==
  {Answered([present |-> TRUE, text |-> GoodText]), Answered(SomeText),
   Answered(BlankText), TimedOut, Rejected(KeyMessage), Rejected(NetworkMessage)}

\* a provider is constructed between calls
NextRequest ==
  \/ calls[1].state = "idle" /\ \E configured \in 0..MaxRetries : Construct(configured)
  \/ \E request \in GenerateRequests : GenerateCodeCalled(request)
  \/ \E outcome \in RequestOutcomes : RequestSettles(outcome)
  \/ SleepEnds
  \/ GenerateContentSettles
  \/ OrchTick

SpecRequest == Init /\ [][NextRequest]_vars

\* the promise of llmProvider.generateContent has settled and generateCode
\* has not been continued yet: GenerateContentSettles is enabled
ContinuationDue == calls[1].state = "provider" /\ providerPc = "done"

\* every attempt answers, fails or times out, a sleep ends, and a settled
\* promise is continued (weak fairness of GenerateContentSettles, with its
\* enabling condition written out)
SpecRequestFair ==
  /\ SpecRequest
  /\ WF_vars(\E outcome \in RequestOutcomes : RequestSettles(outcome))
  /\ WF_vars(SleepEnds)
  /\ ([]<>(~ContinuationDue) \/ []<><<GenerateContentSettles>>_vars)

NextInterleaved ==
  \/ \E id \in Slots, k \in CacheKeys, v \in FittingValues, ttl \in ShortTtls :
       SetCalled(id, k, v, ttl)
  \/ \E id \in Slots : SetResumes(id)
  \/ \E k \in {"A"} : Get(k)
  \/ \E k \in {"A"} : Has(k)
  \/ \E k \in {"A"} : Delete(k)
  \/ Clear
  \/ Cleanup
  \/ Tick

SpecInterleaved == Init /\ [][NextInterleaved]_vars

\* makeRequest settles, by its own timer at the latest, and sleep ends
SpecProviderFair ==
  /\ SpecProvider
  /\ WF_vars(\E outcome \in Outcomes : RequestSettles(outcome))
  /\ WF_vars(SleepEnds)

-----------------------------------------------------------------------------
(* Claims about CodeGenerationService, checked under SpecOrch *)

\* the TTL window the specification gives the results of a method, in seconds
WindowOf(method) == IF method = "generateCode" THEN 300 ELSE 600

C1_HitStep(request) ==
  LET k == CacheKeyOf(request)
  IN  ( /\ lastCall'.phase = "begin"
        /\ lastCall'.op = request.method
        /\ lastCall'.key = k
        /\ written[k] # NoWrite
        /\ clock <= written[k].at + WindowOf(request.method) * 1000 )
      => /\ lastCall'.hit
         /\ lastCall'.ok
         /\ lastCall'.value = written[k].value
         /\ lastCall'.providerCalls = 0
         /\ written[k].providerCalls + lastCall'.providerCalls = 1
         /\ calls' = calls

\* C1: when a generateCode call begins while the entry an earlier completed
\* call of the same request wrote is still stored (not removed, not
\* overwritten since) and at most 300 s have passed since it was written, the
\* call returns the value that earlier call returned and calls the provider
\* zero times, so the provider was invoked once for the two calls; the same
\* for validateCode with 600 s.
C1_SecondCallServedFromCache ==
  [][\A request \in GenerateRequests \cup ValidateRequests : C1_HitStep(request)]_vars

C1_Witness ==
  /\ lastCall.phase = "begin"
  /\ lastCall.op = "validateCode"
  /\ lastCall.hit
  /\ lastCall.providerCalls = 0
  /\ written[lastCall.key].at = 1
  /\ clock = 600001

-----------------------------------------------------------------------------
(* Claims about MemoryCacheService, checked under SpecCache *)

EntryOf(c, key) == c[IndexOf(c, key)]

\* C2: after any run of completed set/get/has/delete/cleanup/clear calls the
\* number of stored entries is at most the configured maxEntries.
C2_EntryCountWithinMax == Len(cache) <= maxEntries

\* the scenario's third insert found the cache full and had to evict
C2_Witness == script = Len(LruScenario) /\ Len(cache) = maxEntries

\* C3: after any run of completed calls the tracked size is at most the
\* configured maxSize, whatever the approximate size of the values.
C3_SizeWithinMax == currentSize <= maxSize /\ SumSizes(cache) <= maxSize

\* C4: set(key, v, ttl) stores v with expiry now + ttl seconds (no expiry for
\* ttl = 0); no later call but a set of the same key changes that; a get
\* strictly after the expiry is a miss that removes the entry, a get at or
\* before it is a hit returning v; an entry without expiry leaves the cache
\* only through eviction by set, delete or clear.
C4_SetStep ==
  lastOp'.op = "set" =>
    /\ lastOp'.key \in KeysOf(cache')
    /\ EntryOf(cache', lastOp'.key).value = lastOp'.value
    /\ EntryOf(cache', lastOp'.key).expiresAt =
         IF lastOp'.ttl[1] > 0 THEN clock + lastOp'.ttl[1] * 1000 ELSE 0

C4_KeepStep ==
  \A k \in KeysOf(cache) \cap KeysOf(cache') :
    (lastOp'.op = "set" /\ lastOp'.key = k) \/
      /\ EntryOf(cache', k).value = EntryOf(cache, k).value
      /\ EntryOf(cache', k).expiresAt = EntryOf(cache, k).expiresAt

C4_GetStep ==
  (lastOp'.op = "get" /\ lastOp'.key \in KeysOf(cache)) =>
    LET e == EntryOf(cache, lastOp'.key)
    IN  IF e.expiresAt > 0 /\ clock > e.expiresAt
        THEN ~lastOp'.hit /\ lastOp'.key \notin KeysOf(cache')
        ELSE /\ lastOp'.hit
             /\ lastOp'.value = e.value
             /\ lastOp'.key \in KeysOf(cache')

C4_NoExpiryStep ==
  \A k \in KeysOf(cache) \ KeysOf(cache') :
    EntryOf(cache, k).expiresAt = 0 => lastOp'.op \in {"set", "delete", "clear"}

C4_Expiry ==
  [][C4_SetStep /\ C4_KeepStep /\ C4_GetStep /\ C4_NoExpiryStep]_vars

\* a get issued after the expiry time found the entry and removed it
C4_Witness == lastOp.op = "get" /\ lastOp.expired /\ ~lastOp.hit

\* C5: set evicts the least recently accessed entry, a get being an access:
\* with maxEntries = 2, after set(A), set(B), get(A), set(C) the cache holds
\* A and C.
C5_ScenarioEvictsB ==
  (maxEntries = 2 /\ script = Len(LruScenario)) => KeysOf(cache) = {"A", "C"}

-----------------------------------------------------------------------------
(* Claims about ServiceContainer, checked under SpecContainer *)

RegisteredAs(token, singleton) ==
  /\ Has_(services["root"], token)
  /\ services["root"][token].singleton = singleton

\* C6: however often a token registered as singleton is resolved, its
\* implementation is constructed at most once and every resolve returns the
\* same instance; every resolve of a token registered as transient returns an
\* instance no earlier resolve returned.
C6_SingletonOnceTransientFresh ==
  /\ \A t \in Tokens :
       RegisteredAs(t, TRUE) => built[t] <= 1 /\ Cardinality(returned[t]) <= 1
  /\ (lastResolve.op = "resolve" /\ lastResolve.outcome = "ok"
        /\ RegisteredAs(lastResolve.token, FALSE)) => lastResolve.fresh

\* C7: with A registered as depending on B and B as depending on A (and no
\* instance handed in or cached for either beforehand), resolve(A) fails with
\* a circular-dependency error whose chain names A and B.
C7_CycleDetected ==
  (/\ lastResolve.op = "resolve"
   /\ lastResolve.container = "root"
   /\ lastResolve.token = "A"
   /\ nextId = built["A"] + built["B"]
   /\ returned["B"] = {}
   /\ returned["A"] \subseteq {lastResolve.instance}
   /\ Has_(services["root"], "A")
   /\ Has_(services["root"], "B")
   /\ DeclaredDependencies(services["root"]["A"].implementation) = "B"
   /\ DeclaredDependencies(services["root"]["B"].implementation) = "A")
  => /\ lastResolve.outcome = "CircularDependency"
     /\ {"A", "B"} \subseteq SeqToSet(lastResolve.chain)

-----------------------------------------------------------------------------
(* Claims about GeminiProvider, checked under SpecProvider *)

HasText(outcome) ==
  /\ outcome.kind = "answer"
  /\ outcome.present
  /\ \E i \in 1..Len(outcome.text) : SubSeq(outcome.text, i, i) \notin WhiteSpace

IsBlank(outcome) == outcome.kind = "answer" /\ ~HasText(outcome)

\* C8: generateContent makes at most `retries` attempts; an attempt that
\* returns non-blank text is the last one and its text is what the call
\* returns; after two retryable failures with retries >= 3 the call goes on to
\* a third attempt, and when that one answers with text the call succeeds
\* with exactly 3 attempts made.
C8_AttemptsBoundedFirstTextWins ==
  /\ Len(attemptLog) <= retries
  /\ \A i \in 1..Len(attemptLog) :
       HasText(attemptLog[i]) =>
         /\ i = Len(attemptLog)
         /\ providerPc = "done"
         /\ providerResult = Returned(attemptLog[i].text)
  /\ ( /\ retries >= 3
       /\ Len(attemptLog) >= 2
       /\ attemptLog[1] = Rejected(NetworkMessage)
       /\ attemptLog[2] = Rejected(NetworkMessage) )
     => /\ Len(attemptLog) = 2 => providerPc \in {"sleep", "request"}
        /\ (Len(attemptLog) >= 3 /\ HasText(attemptLog[3])) =>
             /\ Len(attemptLog) = 3
             /\ attempt = 3
             /\ providerResult = Returned(attemptLog[3].text)

C8_Witness ==
  /\ providerPc = "done"
  /\ providerResult = Returned(SomeText.text)
  /\ attemptLog = <<Rejected(NetworkMessage), Rejected(NetworkMessage), Answered(SomeText)>>

IsFatal(outcome) == outcome.kind = "error" /\ outcome.text \in FatalMessages

\* C9: an error that tells of authentication, quota or billing, or a
\* malformed request ends the loop at once: it is the last attempt, the call
\* has failed, and no delay is slept after it; when it is the first attempt's
\* error, exactly 1 attempt is made and no delay is slept at all.
C9_FatalErrorEndsLoop ==
  \A i \in 1..Len(attemptLog) :
    IsFatal(attemptLog[i]) =>
      /\ i = Len(attemptLog)
      /\ providerPc = "done"
      /\ ~providerResult.ok
      /\ attempt = i
      /\ Len(delays) = i - 1

C9_Witness ==
  /\ retries > 1
  /\ providerPc = "done"
  /\ attemptLog = <<Rejected(KeyMessage)>>
  /\ delays = <<>>

IsTimeoutOrBlank(outcome) == outcome.kind = "timeout" \/ IsBlank(outcome)

C10_CountsAsFailure ==
  (attemptLog # <<>> /\ IsTimeoutOrBlank(attemptLog[Len(attemptLog)])) =>
    /\ lastError = IF attemptLog[Len(attemptLog)].kind = "timeout"
                   THEN TimeoutMessage ELSE EmptyMessage
    /\ IF Len(attemptLog) < retries
       THEN providerPc \in {"sleep", "request"} /\ Len(delays) = Len(attemptLog)
       ELSE providerPc = "done" /\ ~providerResult.ok

C10_NeverBlank ==
  (providerPc = "done" /\ providerResult.ok) =>
    \E i \in 1..Len(providerResult.text) :
       SubSeq(providerResult.text, i, i) \notin WhiteSpace

\* C10: a timed out attempt and an attempt answered with blank text are
\* failed attempts (lastError holds their error); when attempts remain the
\* call is not over and the next attempt does get made; when none remain the
\* call fails; and the text generateContent returns is never blank.
C10_TimeoutAndBlankRetried ==
  /\ [](C10_CountsAsFailure /\ C10_NeverBlank)
  /\ \A n \in 1..(MaxRetries - 1) :
       ( /\ Len(attemptLog) = n
         /\ n < retries
         /\ IsTimeoutOrBlank(attemptLog[n]) ) ~> (Len(attemptLog) = n + 1)

C10_Witness ==
  /\ Len(attemptLog) = 3
  /\ attemptLog[1] = TimedOut
  /\ attemptLog[2] = Answered(BlankText)
  /\ providerPc = "done"
  /\ providerResult.ok

\* the message of the error an attempt that did not yield text ends in
FailureOf(outcome) ==
  CASE outcome.kind = "timeout" -> "Request timeout"
    [] outcome.kind = "error"   -> outcome.text
    [] OTHER                    -> "Empty response received from Gemini"

IsRetryableFailure(outcome) == ~HasText(outcome) /\ ~IsFatal(outcome)

\* C11: when the call is over and every attempt made failed with a retryable
\* error, exactly `retries` attempts were made and the error thrown is the
\* "Gemini generation failed" error that carries the message of the last
\* attempt's error.
C11_ExhaustedWrapsLastError ==
  ( /\ providerPc = "done"
    /\ attemptLog # <<>>
    /\ \A i \in 1..Len(attemptLog) : IsRetryableFailure(attemptLog[i]) )
  => /\ Len(attemptLog) = retries
     /\ ~providerResult.ok
     /\ providerResult.text =
          "Gemini generation failed: " \o FailureOf(attemptLog[Len(attemptLog)])

\* three attempts failed retryably, each with another error
C11_Witness ==
  /\ providerPc = "done"
  /\ retries = 3
  /\ attemptLog = <<TimedOut, Rejected(NetworkMessage), Answered(BlankText)>>
  /\ ~providerResult.ok


-----------------------------------------------------------------------------
(* GeminiProvider.generateContentStream *)

\* C12: once the streaming call has failed, while the stream is opened or
\* while its chunks are received, generateContentStream has called
\* generateContent with the prompt and the configuration it was given
\* itself, returns nothing before that call settles, and then returns or
\* throws exactly what that call returned or threw.
C12_StreamFailureFallsBack ==
  failedAt \in {"open", "chunk"}
    => /\ streamPc \in {"fallback", "done"}
       /\ fallbackCall = GenerateCall(streamCall.prompt, streamCall.config)
       /\ streamPc = "fallback" => streamResult = NoResult
       /\ streamPc = "done" => providerPc = "done" /\ streamResult = providerResult

C12_Witness ==
  /\ streamPc = "done"
  /\ failedAt = "chunk"
  /\ received = <<ChunkOf("a")>>
  /\ streamCall.config = "given"
  /\ attemptLog = <<TimedOut, Answered(SomeText)>>
  /\ streamResult = Returned("{}")

\* the texts of the chunks that have one, in the order received
RECURSIVE TextsOf(_)
TextsOf(chunks) ==
  IF chunks = <<>> THEN <<>>
  ELSE IF Head(chunks).present /\ Head(chunks).text # ""
       THEN <<Head(chunks).text>> \o TextsOf(Tail(chunks))
       ELSE TextsOf(Tail(chunks))

\* the texts of the received chunks, one after the other
RECURSIVE Concatenation(_)
Concatenation(texts) ==
  IF texts = <<>> THEN "" ELSE Head(texts) \o Concatenation(Tail(texts))

\* the stream was iterated to its end
StreamCompleted ==
  \/ streamPc = "done" /\ failedAt = "none" /\ received # <<>>
  \/ failedAt = "empty"

\* C13 (as stated): while and after a stream that completes, onChunk has
\* been called once with the text of every received chunk that has one,
\* in the order received, whether or not a call threw, and what
\* generateContentStream returns is the concatenation of the received
\* chunks in order.
C13_CompletedStreamReturnsAllChunks ==
  /\ streamCall.onChunk => delivered = TextsOf(received)
  /\ Len(warned) = Len(delivered)
  /\ (StreamCompleted /\ streamPc = "done")
       => streamResult = Returned(Concatenation(TextsOf(received)))

\* C13 (amended): the same delivery of the chunks to onChunk; the
\* accumulated text is the concatenation of the received chunks in order;
\* a completed stream returns it when it is not blank after trim, and a
\* completed stream whose accumulated text is blank is treated as a
\* failure: generateContent is called with the same arguments and its
\* outcome is the outcome.
C13_CompletedStreamReturnsNonBlank ==
  /\ streamCall.onChunk => delivered = TextsOf(received)
  /\ ~streamCall.onChunk => delivered = <<>>
  /\ Len(warned) = Len(delivered)
  /\ fullContent = Concatenation(TextsOf(received))
  /\ (StreamCompleted /\ failedAt = "none")
       => /\ trim(fullContent) # ""
          /\ streamResult = Returned(Concatenation(TextsOf(received)))
          /\ fallbackCall = NoGenerateCall
  /\ failedAt = "empty"
       => /\ trim(Concatenation(TextsOf(received))) = ""
          /\ fallbackCall = GenerateCall(streamCall.prompt, streamCall.config)
          /\ streamPc = "done" => streamResult = providerResult

C13_Witness ==
  /\ streamPc = "done"
  /\ failedAt = "none"
  /\ received = <<ChunkOf("a"), ChunkOf("b")>>
  /\ delivered = <<"a", "b">>
  /\ warned = <<TRUE, FALSE>>
  /\ streamResult = Returned("ab")

-----------------------------------------------------------------------------
(* CodeGenerationService.generateCodeWithStreaming *)

IsStreaming(call) == call.op = "generateCodeWithStreaming"

\* C14: no step of generateCodeWithStreaming, whether it starts the call,
\* returns its result or fails, changes the cache: no entry is added,
\* replaced or touched; and a generateCode for the same request that
\* follows a generateCodeWithStreaming that ended while the key was not
\* stored misses the cache and calls the provider.
C14_StreamingLeavesCacheUnchanged ==
  [][ /\ IsStreaming(lastCall') => (cache' = cache /\ currentSize' = currentSize)
      /\ ( /\ IsStreaming(lastCall)
           /\ lastCall.phase = "end"
           /\ lastCall'.phase = "begin"
           /\ lastCall'.op = "generateCode"
           /\ lastCall'.key \in {generateCacheKey(request) : request \in StreamingRequests}
           /\ lastCall'.key \notin KeysOf(cache) )
         => (~lastCall'.hit /\ lastCall'.providerCalls = 1) ]_vars

C14_Witness ==
  /\ IsStreaming(lastCall)
  /\ lastCall.phase = "end"
  /\ lastCall.ok
  /\ lastCall.value = ObjectValue("{\"files\":{\"a\":\"1\"},\"message\":\"m\",\"suggestions\":[]}")
  /\ cache = <<>>

-----------------------------------------------------------------------------
(* CodeGenerationService.generateCode *)

\* key is stored in c and has not expired at now
Stored(c, key, now) ==
  /\ IndexOf(c, key) # 0
  /\ ~(EntryOf(c, key).expiresAt > 0 /\ now > EntryOf(c, key).expiresAt)

\* what set stores of an entry
StoredPart(entry) == [value |-> entry.value, expiresAt |-> entry.expiresAt, size |-> entry.size]

\* the step stored an entry under key, or replaced the one stored there
Rewritten(key) ==
  /\ IndexOf(cache', key) # 0
  /\ IndexOf(cache, key) = 0 \/ StoredPart(EntryOf(cache', key)) # StoredPart(EntryOf(cache, key))

\* C15: a step of generateCode reaches the provider only when the key is
\* not stored or has expired; an entry is stored or replaced only by the
\* step that ends a call whose provider call returned and whose text
\* parsed, with the parsed result as value and an expiry 300 s ahead; a
\* call that ends in failure, at the provider or at parsing, leaves the
\* cache as it was.
C15_ProviderAfterMissWriteAfterParse ==
  [][ lastCall'.op = "generateCode" =>
        /\ (lastCall'.phase = "begin" /\ lastCall'.providerCalls = 1)
             => (~lastCall'.hit /\ ~Stored(cache, lastCall'.key, clock))
        /\ \A k \in OrchKeys :
             Rewritten(k) => /\ lastCall'.phase = "end"
                             /\ lastCall'.ok
                             /\ lastCall'.providerCalls = 1
                             /\ k = lastCall'.key
        /\ (lastCall'.phase = "end" /\ lastCall'.ok)
             => /\ EntryOf(cache', lastCall'.key).value = lastCall'.value
                /\ EntryOf(cache', lastCall'.key).expiresAt
                     = clock + GenerationTtl * MsPerSecond
        /\ (lastCall'.phase = "end" /\ ~lastCall'.ok)
             => (cache' = cache /\ currentSize' = currentSize) ]_vars

\* a generateCode call whose provider text did not parse has ended and the
\* key is not stored
C15_Witness ==
  /\ lastCall.op = "generateCode"
  /\ lastCall.phase = "end"
  /\ ~lastCall.ok
  /\ lastCall.category = "external_api"
  /\ lastCall.providerCalls = 1
  /\ IndexOf(cache, lastCall.key) = 0

-----------------------------------------------------------------------------
(* generation results *)

\* the files object of a GenerateCodeResponse has no key
EmptyFileMap(value) ==
  value.t = "object" /\ Len(value.s) >= 11 /\ SubSeq(value.s, 1, 11) = "{\"files\":{}"

\* C16: a generation call that has completed either returned a result
\* whose file map holds at least one file or failed with an error that
\* carries a category; a result with an empty file map is never returned
\* as a success, and none is stored in the cache.
C16_FilesOrClassifiedError ==
  /\ lastCall.phase = "end"
       => IF lastCall.ok
          THEN lastCall.value.t = "object" /\ ~EmptyFileMap(lastCall.value)
          ELSE lastCall.category # ""
  /\ \A i \in 1..Len(cache) : ~EmptyFileMap(cache[i].value)

-----------------------------------------------------------------------------
(* CodeGenerationService.parseGeneratedResponse *)

\* the step ends a generateCode call whose provider call returned a text
ParseStep ==
  /\ lastCall'.phase = "end"
  /\ lastCall'.op = "generateCode"
  /\ lastCall'.ok \/ lastCall'.category = "external_api"

InFlight(cs) == Cardinality({slot \in Slots : cs[slot].state = "provider"})

\* the call fails as a parse failure after its one provider call, and no
\* provider call takes its place
FailsMalformed ==
  /\ ~lastCall'.ok
  /\ lastCall'.category = "external_api"
  /\ lastCall'.providerCalls = 1
  /\ InFlight(calls') = InFlight(calls) - 1
  /\ cache' = cache

-----------------------------------------------------------------------------
(* CodeGenerationService.generateCode when the cache service fails *)

\* C18: a generateCode step in which cacheService.get rejected goes on to
\* the provider as after a miss, and one in which cacheService.set
\* rejected returns the generated result: the call does not end in
\* failure because of the cache.
C18_CacheErrorIsAMiss ==
  "fault" \in DOMAIN lastCall
    => /\ lastCall.fault = "get" => (lastCall.phase = "begin" /\ lastCall.providerCalls = 1)
       /\ lastCall.fault = "set" => (lastCall.phase = "end" /\ lastCall.ok)

-----------------------------------------------------------------------------
(* concurrent generateCode calls *)

\* the generateCode calls in flight at the provider for key
InFlightFor(cs, key) ==
  {slot \in Slots : /\ cs[slot].state = "provider"
                    /\ cs[slot].request.method = "generateCode"
                    /\ cs[slot].key = key}

\* C19: a generateCode call that finds its key not stored calls the
\* provider whether or not other calls for the same key are in flight, so
\* the calls in flight for the key grow by one; and every such call whose
\* provider text parses then stores its own result under the key.
C19_ConcurrentMissesBothCallAndWrite ==
  [][ lastCall'.op = "generateCode" =>
        /\ (lastCall'.phase = "begin" /\ ~Stored(cache, lastCall'.key, clock))
             => /\ lastCall'.providerCalls = 1
                /\ Cardinality(InFlightFor(calls', lastCall'.key))
                     = Cardinality(InFlightFor(calls, lastCall'.key)) + 1
        /\ (lastCall'.phase = "end" /\ lastCall'.ok)
             => /\ Cardinality(InFlightFor(calls', lastCall'.key))
                     = Cardinality(InFlightFor(calls, lastCall'.key)) - 1
                /\ IndexOf(cache', lastCall'.key) # 0
                /\ EntryOf(cache', lastCall'.key).value = lastCall'.value
                /\ EntryOf(cache', lastCall'.key).lastAccessed = clock ]_vars

\* two provider calls are in flight for one key, which is not stored
C19_Witness ==
  /\ Cardinality(InFlightFor(calls, generateCacheKey(GenerateV))) = 2
  /\ IndexOf(cache, generateCacheKey(GenerateV)) = 0

-----------------------------------------------------------------------------
(* MemoryCacheService under concurrent calls *)

\* C20: whatever the interleaving of the steps of concurrent set calls with
\* each other and with get and cleanup, with values that fit into maxSize
\* one by one, the cache is in a state that calls run one after another
\* reach: at most maxEntries entries, a tracked size of at most maxSize,
\* and a tracked size that is the sum of the sizes of the entries.
C20_InterleavedSetsKeepLimits ==
  /\ Len(cache) <= maxEntries
  /\ currentSize <= maxSize
  /\ currentSize = SumSizes(cache)

-----------------------------------------------------------------------------
(* CodeGenerationService.parseGeneratedResponse: shapes of the files payload *)

\* the path->content map of the one file of FileTexts
CanonicalFiles == <<[name |-> "a", content |-> "1"]>>

\* C21: a generateCode call whose provider text gives the file a -> 1 as
\* {name, content}, as {fileName, fileContent} or as {path, content} under
\* files, or as a bare top-level array of file objects, succeeds in every
\* case with the same file map, a -> 1.
C21_FilePayloadsNormalizeAlike ==
  [][ (ParseStep /\ repairLog'.content \in FileTexts)
        => /\ lastCall'.ok
           /\ \E framework \in SupportedFrameworks :
                lastCall'.value = GenerateCodeResponse(CanonicalFiles,
                                                       DefaultMessage(framework), "[]") ]_vars

\* the three shapes under files do normalize alike
ShapesUnderFilesNormalizeAlike ==
  [][ (ParseStep /\ repairLog'.content \in FileTexts \ {ArrayText})
        => /\ lastCall'.ok
           /\ \E framework \in SupportedFrameworks :
                lastCall'.value = GenerateCodeResponse(CanonicalFiles,
                                                       DefaultMessage(framework), "[]") ]_vars

-----------------------------------------------------------------------------
(* CodeGenerationService.cleanJsonString: an unescaped quote *)

\* C22: a generateCode call whose provider text is a fenced block around
\* a JSON payload with an unescaped double quote in its content field
\* succeeds after the one repair pass, and the file is in the file map
\* with the quotes in its content.
C22_FencedUnescapedQuoteRepaired ==
  [][ (ParseStep /\ repairLog'.content = FencedQuoteText)
        => /\ repairLog'.span = "fenced"
           /\ repairLog'.repairs = 1
           /\ lastCall'.ok
           /\ \E framework \in SupportedFrameworks :
                lastCall'.value =
                  GenerateCodeResponse(<<[name |-> "a", content |-> "say \"hi\""]>>,
                                       DefaultMessage(framework), "[]") ]_vars

-----------------------------------------------------------------------------
(* CodeGenerationService.generateCode with invalid input *)

\* an empty or blank prompt, a prompt above the maximum length, or a
\* framework that is not configured
InvalidInput(request) ==
  \/ trim(request.prompt) = ""
  \/ Len(request.prompt) > MaxPromptLength
  \/ request.framework \notin SupportedFrameworks

\* the step is generateCode(request) up to its first await of the provider
BeginStep(request) ==
  /\ lastCall'.phase = "begin"
  /\ lastCall'.op = "generateCode"
  /\ lastCall'.key = generateCacheKey(request)
  /\ clock' = clock

\* C23: generateCode for a request with an empty or blank prompt, a prompt
\* above the maximum length or an unsupported framework fails in that step
\* with a validation (invalid input) error; no provider call is left in
\* flight, so nothing is attempted or retried, and nothing is stored under
\* the request's key.
C23_InvalidInputFailsAtOnce ==
  [][ \A request \in InvalidRequests :
        (InvalidInput(request) /\ BeginStep(request))
          => /\ ~lastCall'.ok
             /\ lastCall'.category = "validation"
             /\ calls' = calls
             /\ IndexOf(cache', lastCall'.key) = 0 ]_vars

-----------------------------------------------------------------------------
(* ServiceContainer.dispose *)

\* the step ends a dispose call, by its return or by an exception
DisposeEnds == disposal' # disposal /\ disposal'.pc \in {"done", "failed"}

\* the tokens of the instances of the root container that have a hook
Hooked(insts, hooks) == {t \in Tokens : insts[t] # 0 /\ hooks[t] # "none"}

\* C24: when a dispose call ends, the teardown hook of every instance that
\* has one was invoked, once each, whether hooks failed or not, and the
\* registrations and instances are cleared: isRegistered is false for
\* every token.
C24_DisposeInvokesAllAndClears ==
  [][ DisposeEnds
        => /\ disposal'.pc = "done"
           /\ SeqToSet(disposal'.invoked) = Hooked(instances, disposal'.hooks)
           /\ Len(disposal'.invoked) = Cardinality(Hooked(instances, disposal'.hooks))
           /\ \A t \in Tokens : ~isRegistered("root", t)' ]_vars

-----------------------------------------------------------------------------
(* MemoryCacheService: the tracked size *)

\* C25: in every state, also between the steps of interleaved set calls,
\* currentSize is the sum of the sizes of the stored entries: 0 for an
\* empty cache and never negative, whatever set, get, has, delete,
\* eviction, cleanup and clear did.
C25_SizeIsSumOfEntries ==
  /\ currentSize = SumSizes(cache)
  /\ currentSize >= 0
  /\ cache = <<>> => currentSize = 0

\* two interleaved set calls have both inserted, past maxSize, and the
\* tracked size is the sum of the entries
C25_Witness ==
  /\ \A id \in Slots : pending[id].pc = "idle"
  /\ currentSize > maxSize
  /\ Len(cache) >= 2
  /\ currentSize = SumSizes(cache)

-----------------------------------------------------------------------------
(* CodeGenerationService: what a cache key stands for *)

\* the files of a request as a map, whatever their order
FileSet(request) == {request.files[i] : i \in DOMAIN request.files}

\* the two requests ask for the same work: for generateCode the same
\* framework, prompt, history and currentFiles paths; for validateCode the
\* same framework and the same files with the same contents
SameWork(a, b) ==
  /\ a.method = b.method
  /\ a.framework = b.framework
  /\ IF a.method = "validateCode"
     THEN FileSet(a) = FileSet(b)
     ELSE /\ a.prompt = b.prompt
          /\ a.history = b.history
          /\ Keys(a.files) = Keys(b.files)

\* C26: a generateCode or validateCode call that is served from the cache
\* returns a result that was produced for a request asking for the same
\* work.
C26_HitIsForSameRequest ==
  [][ (lastCall'.phase = "begin" /\ lastCall'.hit /\ clock' = clock)
        => SameWork(written[lastCall'.key].request, lastCall'.request) ]_vars

-----------------------------------------------------------------------------
(* MemoryCacheService.ensureCapacity: progress of the capacity loops *)

\* the step is a turn of a capacity loop of the set call id: evictLRU was
\* called on a cache that is not empty and its return is awaited
LoopTurnStep(id) ==
  /\ pending'[id] # pending[id]
  /\ pending'[id].pc \in {"size", "count"}
  /\ Len(cache) > 0

\* C27: every turn of a capacity loop of set removes exactly one entry
\* while the cache is not empty, also when the stored entries were all last
\* accessed at the same instant or at the current instant, so the loops
\* end after at most as many turns as there are entries.
C27_EachTurnEvictsOne ==
  [][ \A id \in Slots : LoopTurnStep(id) => Len(cache') = Len(cache) - 1 ]_vars

-----------------------------------------------------------------------------
(* GeminiProvider.generateContentStream: the result and the delivered chunks *)

\* C28: the text a generateContentStream call with an onChunk callback
\* returns is the concatenation, in order, of the texts passed to onChunk
\* during the call, also when the stream failed after some chunks and the
\* result is that of the fallback.
C28_ResultIsDeliveredChunks ==
  (streamPc = "done" /\ streamCall.onChunk /\ streamResult.ok)
    => streamResult.text = Concatenation(delivered)

-----------------------------------------------------------------------------
(* CodeGenerationService.generateCode on GeminiProvider: the states of a request *)

\* where the generateCode call stands: its provider call is running
\* (PROVIDER_CALL, reached after the cache check missed and the prompt was
\* built), the provider call is over and parse and cache write are next
\* (PARSE), or no call is in progress: none has ended in the last step
\* (PENDING), or the last step ended one with its result (DONE) or with an
\* error (FAILED)
Phase ==
  IF calls[1].state = "provider"
  THEN IF providerPc = "done" THEN "PARSE" ELSE "PROVIDER_CALL"
  ELSE IF lastCall.phase \in {"init", "tick"} THEN "PENDING"
  ELSE IF lastCall.ok THEN "DONE" ELSE "FAILED"

AtRest == Phase \in {"PENDING", "DONE", "FAILED"}

\* the steps a request takes
PhaseEdge ==
  \/ Phase' = Phase
  \/ AtRest /\ Phase' = "PENDING" /\ UNCHANGED <<calls, cache, attemptLog>>
  \/ AtRest /\ Phase' = "DONE" /\ lastCall'.hit /\ attemptLog' = attemptLog
  \/ AtRest /\ Phase' = "FAILED" /\ attemptLog' = attemptLog /\ cache' = cache
  \/ AtRest /\ Phase' \in {"PROVIDER_CALL", "PARSE"}
       /\ ~lastCall'.hit /\ attemptLog' = <<>>
  \/ Phase = "PROVIDER_CALL" /\ Phase' = "PARSE"
  \/ /\ Phase = "PARSE" /\ Phase' = "DONE"
     /\ providerResult.ok
     /\ ~lastCall'.hit
     /\ IndexOf(cache', lastCall'.key) # 0
     /\ \A i \in 1..Len(cache') :
          cache'[i].key = lastCall'.key => cache'[i].value = lastCall'.value
  \/ Phase = "PARSE" /\ Phase' = "FAILED" /\ cache' = cache

\* C29: a generateCode call goes from the cache check either to its result
\* (a hit) or, after a miss, through the provider call, the parse and the
\* cache write to its result, in that order, and a failure of the provider
\* call or the parse ends it with an error that has a category; the
\* provider makes at most `retries` attempts; and when every attempt
\* answers, fails or times out, a call that has reached the provider ends.
C29_RequestTerminatesInOrder ==
  /\ [][PhaseEdge]_vars
  /\ [](Len(attemptLog) <= retries)
  /\ [](Phase = "FAILED" => lastCall.category # "")
  /\ (calls[1].state = "provider") ~> (Phase \in {"DONE", "FAILED"})

\* a call that missed ended with its result after a timed out attempt and
\* an answered one
C29_Witness ==
  /\ Phase = "DONE"
  /\ ~lastCall.hit
  /\ lastCall.phase = "end"
  /\ Len(attemptLog) = 2
  /\ attemptLog[1] = TimedOut
  /\ IndexOf(cache, lastCall.key) # 0

-----------------------------------------------------------------------------
(* ServiceContainer.resolve: the resolution stack *)

NoDuplicates(seq) == \A i, j \in 1..Len(seq) : seq[i] = seq[j] => i = j

\* C30: the resolution stack never holds a token twice; every resolve call,
\* the nested ones included, whether it returns or throws NotRegistered,
\* CircularDependency or its constructor's error, leaves the stack as it
\* found it and, when it throws, leaves the instance cached for its token
\* as it was; the stack is empty whenever no resolve is in progress.
C30_StackRestored ==
  /\ \A c \in {"root", "child"} : resolutionStack[c] = <<>>
  /\ \A i \in 1..Len(lastResolve.log) :
       LET call == lastResolve.log[i]
       IN  /\ NoDuplicates(call.inside)
           /\ call.after = call.before
           /\ call.outcome # "ok" => call.has = call.had
           /\ call.outcome \in {"ok", "NotRegistered", "CircularDependency",
                                "ConstructorError"}

\* resolve(A) ran the constructor of A, which resolved B, whose constructor
\* resolved A: three calls, the innermost thrown out of with the stack at
\* two tokens
C30_Witness ==
  /\ lastResolve.op = "resolve"
  /\ lastResolve.outcome = "CircularDependency"
  /\ Len(lastResolve.log) = 3
  /\ \E i \in 1..Len(lastResolve.log) : Len(lastResolve.log[i].inside) = 2
  /\ resolutionStack[lastResolve.container] = <<>>

\* resolve threw its constructor's error
C30_ConstructorThrew ==
  /\ lastResolve.op = "resolve"
  /\ lastResolve.outcome = "ConstructorError"
  /\ Len(lastResolve.log) = 2

-----------------------------------------------------------------------------
(* MemoryCacheService.cleanup on its timer *)

\* the expiry times set can give an entry
ExpiryValues == {ExpiresAt(<<1>>, now) : now \in ClockValues}

StoredUntil(key, expiresAt) ==
  \E i \in DOMAIN cache : cache[i].key = key /\ cache[i].expiresAt = expiresAt

\* a run of cleanup: the entries it leaves are those stored before whose
\* expiry time is 0 or not yet passed, and the tracked size goes down by the
\* sizes of the others
SweepStep ==
  lastOp'.op = "cleanup" =>
    /\ \A i \in DOMAIN cache :
         (cache[i].expiresAt > 0 /\ clock > cache[i].expiresAt)
           <=> (\A j \in DOMAIN cache' : cache'[j] # cache[i])
    /\ \A j \in DOMAIN cache' : \E i \in DOMAIN cache : cache[i] = cache'[j]
    /\ Len(cache') <= Len(cache)
    /\ currentSize - currentSize' = SumSizes(cache) - SumSizes(cache')

\* C31: a run of the sweep removes every entry that is expired at that time
\* and no other entry and lowers the tracked size by the removed entries'
\* sizes; while the timer runs, an entry that is expired is eventually gone
\* from the cache, read or not.
C31_SweepRemovesExpired ==
  /\ [][SweepStep]_vars
  /\ \A key \in SweepKeys, expiresAt \in ExpiryValues :
       (StoredUntil(key, expiresAt) /\ clock > expiresAt) ~> ~StoredUntil(key, expiresAt)

\* a sweep has just removed the expired entry of A and left the one of B,
\* which has no expiry time
C31_Witness ==
  /\ lastOp.op = "cleanup"
  /\ clock > MsPerSecond + 1
  /\ KeysOf(cache) = {"B"}
  /\ cache[1].expiresAt = 0
  /\ currentSize = 4

-----------------------------------------------------------------------------
(* MemoryCacheService.has, delete and clear *)

\* has answers what get would answer and does to the cache what get does,
\* except that it leaves lastAccessed alone
HasStep ==
  lastOp'.op = "has" =>
    LET asGet == GetResult(cache, currentSize, clock, lastOp'.key)
        i     == IndexOf(cache, lastOp'.key)
    IN  /\ lastOp'.hit = asGet.hit
        /\ currentSize' = asGet.currentSize
        /\ KeysOf(cache') = KeysOf(asGet.cache)
        /\ asGet.expired => lastOp'.key \notin KeysOf(cache')
        /\ ~asGet.expired => cache' = cache

\* delete and clear remove, a key comes back only by a set of it, and a get
\* of a key that is not stored is a miss
RemovedStep ==
  /\ lastOp'.op = "delete" =>
       /\ lastOp'.key \notin KeysOf(cache')
       /\ \A i \in DOMAIN cache :
            cache[i].key # lastOp'.key => \E j \in DOMAIN cache' : cache'[j] = cache[i]
       /\ currentSize' = SumSizes(cache')
  /\ lastOp'.op = "clear" => cache' = <<>> /\ currentSize' = 0
  /\ \A k \in CacheKeys :
       (k \notin KeysOf(cache) /\ k \in KeysOf(cache'))
         => lastOp'.op = "set" /\ lastOp'.key = k
  /\ (lastOp'.op = "get" /\ lastOp'.key \notin KeysOf(cache))
       => ~lastOp'.hit /\ lastOp'.value = NoValue

\* C32: has(key) returns true exactly when get(key) at that time would be a
\* hit, removes the entry when it is expired and does not touch
\* lastAccessed; after delete(key) or clear() the key is gone, comes back
\* only by a set, and a get of it meanwhile is a miss.
C32_HasAsGetAndRemovedStaysOut ==
  [][HasStep /\ RemovedStep]_vars

\* has found an expired entry, removed it and returned false
C32_Witness ==
  /\ lastOp.op = "has"
  /\ lastOp.expired
  /\ ~lastOp.hit
  /\ lastOp.key \notin KeysOf(cache)
  /\ cache # <<>>

-----------------------------------------------------------------------------
(* GeminiProvider.generateContent: the delays between attempts *)

\* C33: the k-th delay of a call is min(1000 * 2^(k-1), 10000) ms and is
\* slept after failed attempt k, k < retries: the delays never go down and
\* never exceed 10000 ms, there are fewer of them than retries, and a call
\* that is over has slept one delay less than it made attempts: none after
\* its last attempt.
C33_BackoffDelays ==
  /\ \A k \in 1..Len(delays) :
       /\ delays[k] = (IF 1000 * 2^(k - 1) < 10000 THEN 1000 * 2^(k - 1) ELSE 10000)
       /\ delays[k] <= 10000
       /\ k > 1 => delays[k - 1] <= delays[k]
       /\ k < retries
       /\ k <= Len(attemptLog)
  /\ providerPc = "sleep" => Len(delays) = Len(attemptLog)
  /\ (providerPc = "done" /\ attemptLog # <<>>) => Len(delays) = Len(attemptLog) - 1

\* six attempts failed: five delays were slept, the fifth at the cap, and
\* none after the sixth attempt
C33_Witness ==
  /\ retries = ManyRetries
  /\ providerPc = "done"
  /\ ~providerResult.ok
  /\ Len(attemptLog) = retries
  /\ Len(delays) = retries - 1
  /\ delays[4] = 8000
  /\ delays[5] = 10000

-----------------------------------------------------------------------------
(* CodeGenerationService: the error of a failed provider call *)

\* generateCode is continued with the error llmProvider.generateContent threw
ProviderFailureSurfaces ==
  /\ ContinuationDue
  /\ ~providerResult.ok
  /\ calls'[1].state = "idle"

\* C34: when the provider call fails (every attempt failed, or an error
\* that is not retried), the caller gets an error of the category
\* external_api, and while attempts are made and slept between the call is
\* still in progress: a failed attempt ends no call.
C34_ProviderFailureIsExternal ==
  [][/\ ProviderFailureSurfaces =>
          /\ ~lastCall'.ok
          /\ lastCall'.phase = "end"
          /\ lastCall'.category = "external_api"
     /\ (calls[1].state = "provider" /\ providerPc \in {"request", "sleep"})
          => calls'[1].state = "provider"]_vars

-----------------------------------------------------------------------------
(* CodeGenerationService.parseGeneratedResponse: message and suggestions *)

\* the messages the result may carry for a payload: its explanation or its
\* message when it has one, the generic text when it has neither
MessagesFor(content, framework) ==
  IF content.explanation = "" /\ content.message = ""
  THEN {DefaultMessage(framework)}
  ELSE {content.explanation, content.message} \ {""}

SuggestionsFor(content) ==
  IF content.suggestions # "" THEN content.suggestions ELSE "[]"

\* C35: the result's message is the payload's explanation or message when
\* it has one and the generic text only when it has neither; its
\* suggestions are the payload's list, or the empty list when it has none.
C35_MessageAndSuggestions ==
  [][\A slot \in Slots, content \in MessagePayloads :
       ProviderAnswers(slot, content) =>
         /\ lastCall'.ok
         /\ \E message \in MessagesFor(content, calls[slot].request.framework) :
              lastCall'.value =
                GenerateCodeResponse(CollectFiles(content.items, <<>>), message,
                                     SuggestionsFor(content))]_vars

-----------------------------------------------------------------------------
(* ServiceContainer.register and registerInstance *)

\* C36: register and registerInstance go through only for a token that
\* neither of them has registered before: a token that gets a registration
\* holds no instance, and a token that is handed an instance has no
\* registration and held no instance.
C36_RegisteredOnce ==
  [][\A t \in Tokens :
       /\ (~Has_(services["root"], t) /\ Has_(services'["root"], t))
            => instances["root"][t] = 0
       /\ (lastResolve'.op = "registerInstance"
             /\ instances'["root"][t] # instances["root"][t])
            => (~Has_(services["root"], t) /\ instances["root"][t] = 0)]_vars

-----------------------------------------------------------------------------
(* MemoryCacheService.set on a stored key *)

\* C37: a set of a key that is stored, with the cache within maxEntries and
\* maxSize once the value is replaced, leaves every other entry as it is
\* and puts the new value, expiry time, size and lastAccessed under the key.
C37_OverwriteEvictsNothing ==
  [][\A k \in CacheKeys :
       (/\ lastOp'.op = "set"
        /\ lastOp'.key = k
        /\ k \in KeysOf(cache)
        /\ Len(cache) <= maxEntries
        /\ currentSize - Freed(cache, k) + calculateSize(lastOp'.value) <= maxSize)
       => /\ KeysOf(cache') = KeysOf(cache)
          /\ \A i \in DOMAIN cache :
               cache[i].key # k => \E j \in DOMAIN cache' : cache'[j] = cache[i]
          /\ \E j \in DOMAIN cache' :
               /\ cache'[j].key = k
               /\ cache'[j].value = lastOp'.value
               /\ cache'[j].size = calculateSize(lastOp'.value)
               /\ cache'[j].expiresAt = ExpiresAt(lastOp'.ttl, clock)
               /\ cache'[j].lastAccessed = clock]_vars

-----------------------------------------------------------------------------
(* ServiceContainer.resolve of a token that is not registered *)

Unknown(c, token) ==
  services[c][token].implementation = "" /\ instances[c][token] = 0

\* C38: resolve of a token that has no registration and no instance throws
\* NotRegistered and leaves the registrations, the instances and the
\* resolution stack as they were; so does such a call made by a constructor
\* during another resolve.
C38_UnknownTokenNotRegistered ==
  [][lastResolve'.op = "resolve" =>
       /\ Unknown(lastResolve'.container, lastResolve'.token) =>
            /\ lastResolve'.outcome = "NotRegistered"
            /\ lastResolve'.chain = <<lastResolve'.token>>
            /\ UNCHANGED <<services, instances, resolutionStack, nextId, built>>
       /\ \A i \in 1..Len(lastResolve'.log) :
            LET call == lastResolve'.log[i]
            IN  (services[lastResolve'.container][call.token].implementation = ""
                   /\ call.had = 0)
                  => /\ call.outcome = "NotRegistered"
                     /\ call.after = call.before
                     /\ call.has = 0]_vars

\* the constructor of A resolved B, which is not registered
C38_Witness ==
  /\ lastResolve.op = "resolve"
  /\ lastResolve.outcome = "NotRegistered"
  /\ lastResolve.token = "A"
  /\ Len(lastResolve.log) = 2
  /\ services[lastResolve.container]["A"].implementation = "NeedsB"
  /\ Unknown(lastResolve.container, "B")

-----------------------------------------------------------------------------
(* generateCodeWithStreaming: what reaches onChunk and what is parsed *)

\* C39: every chunk handed to the caller's onChunk looks like narration (no
\* code fence, no brace, not blank), and the text that is parsed when the
\* call ends is the text of all received chunks, handed on or not.
C39_OnlyNarrationForwarded ==
  /\ \A i \in DOMAIN delivered : LooksLikeNarration(delivered[i])
  /\ (streamPc = "done" /\ streamResult.ok)
       => streamResult.text = Concatenation(TextsOf(received))

-----------------------------------------------------------------------------
(* CodeGenerationService.parseValidationResponse: isValid *)

\* C40: a validateCode call returns, and stores in the cache, isValid = true
\* only for a payload whose isValid field is true; a payload without the
\* field is not reported as valid.
C40_ValidOnlyWhenPayloadSaysSo ==
  [][\A slot \in Slots, content \in ValidatePayloads :
       (/\ calls[slot].request.method = "validateCode"
        /\ ProviderReturns(slot, content)
        /\ \/ lastCall'.ok /\ lastCall'.value = ValidateCodeResponse(TRUE)
           \/ \E i \in DOMAIN cache' :
                /\ cache'[i].key = calls[slot].key
                /\ cache'[i].value = ValidateCodeResponse(TRUE))
       => content.isValid = "true"]_vars

=============================================================================
